---- MODULE Spec2Model ----
(***************************************************************************)
(* Signal validation, position sizing, day-trade reconciliation and order  *)
(* execution of the automated trading system (personal_config.py,          *)
(* enhanced_day_trading_protection.py, automated_system.py).               *)
(*                                                                         *)
(* Money is counted in cents.  The code computes in binary floating point; *)
(* the model computes the same expressions exactly, on scaled integers,    *)
(* and leaves to two inputs the cases where the float result depends on    *)
(* the representation error of the operands: round_up is the direction of  *)
(* a rounding tie (round(x, 2) on x.xx5), quotient_low says that int(a/b)  *)
(* of an exact multiple a = q*b, q >= 2, comes out as q - 1 (as            *)
(* int(7.35 / 1.05) = 6 does).                                             *)
(***************************************************************************)
EXTENDS Integers, Sequences, FiniteSets, TLC

VARIABLES
    \* ---- configuration (class attributes of PersonalTradingConfig)
    ALLOW_DAY_TRADING,
    ALLOW_SHORT_SELLING,
    BUY_AND_HOLD_POSITIONS,
    \* ---- position sizer: the arguments of one call and what it returned
    signal_price,
    account_value,
    settled_funds,
    strategy_name,
    signal_metadata,
    round_up,
    quotient_low,
    base_position,
    position_info,
    sz_pc,
    \* ---- the signal under validation and the account it is validated for
    symbol,
    signal_type,
    confidence,
    current_positions,
    recent_trades,
    \* ---- rule validator: which validator ran and what it returned
    day_trade_protection,
    original_check,
    dt_check,
    v_result,
    v_pc,
    \* ---- day-trade reconciler (EnhancedDayTradingProtection)
    todays_trades_cache,
    cache_timestamp,
    now,
    prev_fetch,
    last_fetch,
    broker_trades,
    \* ---- order executor: one call of execute_trade_automatically_on_account
    held_quantity,
    ex_pc,
    attempt,
    ex_result,
    place_order_calls,
    submitting_attempts,
    waited,
    all_retryable,
    denylisted,
    exhausted,
    fallback_order,
    account_id,
    session,
    placed_orders,
    self_todays_trades,
    first_answer,
    \* ---- the run (run_enhanced_automated_analysis): accounts, signals, the
    \* ---- signal in process and what became of the earlier ones
    trading_accounts,
    all_signals,
    signal_i,
    run_pc,
    validations,
    suitable_accounts,
    best_account,
    refreshed,
    outcomes,
    \* ---- how authenticate gave the run its session
    authentication,
    \* ---- one call of _parse_order_result: its argument and what it gives
    response,
    parse_result,
    prs_pc,
    \* ---- one call of _load_account_details: the account it is given, as it
    \* ---- was and as it is left, what wb.get_account() gave, and the return
    previous_snapshot,
    account_snapshot,
    account_data,
    load_result,
    rf_pc,
    \* ---- the file part of log_trade_execution: the trade log file as it was
    \* ---- and as it is left, the day of the call, and how the write ended
    previous_log_file,
    trade_log_file,
    log_day,
    log_outcome,
    lg_pc,
    \* ---- the account the broker client is on (wb._account_id), the account
    \* ---- it was on when the cached list was fetched, and the last fetch
    \* ---- made for an account
    wb_account_id,
    cache_account_id,
    account_fetch,
    \* ---- one merge of the two broker lists: the two replies, the list
    \* ---- built from them, and where the merge stands
    history_orders,
    account_activities,
    merged_trades,
    mg_pc

cfg_vars == <<ALLOW_DAY_TRADING, ALLOW_SHORT_SELLING, BUY_AND_HOLD_POSITIONS>>
sz_vars == <<signal_price, account_value, settled_funds, strategy_name,
             signal_metadata, round_up, quotient_low, base_position,
             position_info, sz_pc>>
sig_vars == <<symbol, signal_type, confidence, current_positions, recent_trades>>
val_vars == <<day_trade_protection, original_check, dt_check, v_result, v_pc>>
rec_vars == <<todays_trades_cache, cache_timestamp, now, prev_fetch, last_fetch,
              broker_trades>>
ex_vars == <<held_quantity, ex_pc, attempt, ex_result, place_order_calls,
             submitting_attempts, waited, all_retryable, denylisted, exhausted,
             fallback_order, account_id, session, placed_orders,
             self_todays_trades, first_answer>>
run_vars == <<trading_accounts, all_signals, signal_i, run_pc, validations,
              suitable_accounts, best_account, refreshed, outcomes,
              authentication>>
prs_vars == <<response, parse_result, prs_pc>>
rf_vars == <<previous_snapshot, account_snapshot, account_data, load_result, rf_pc>>
lg_vars == <<previous_log_file, trade_log_file, log_day, log_outcome, lg_pc>>
acct_vars == <<wb_account_id, cache_account_id, account_fetch>>
mg_vars == <<history_orders, account_activities, merged_trades, mg_pc>>
lib_vars == <<prs_vars, rf_vars, lg_vars, mg_vars, acct_vars>>
other_vars == <<run_vars, lib_vars>>
vars == <<cfg_vars, sz_vars, sig_vars, val_vars, rec_vars, ex_vars, other_vars>>

(***************************************************************************)
(* Bounds of the model.                                                    *)
(***************************************************************************)
MaxPriceK == 11
MaxEquityK == 9
MaxFundsK == 9
MaxOtherPositions == 7
MaxLocalTrades == 1
MaxBrokerReply == 1
MaxClock == 6
MaxStored == 2
MaxMergeReply == 2

Prices == {130 * k : k \in 1..MaxPriceK} \cup {100}
Equities == {250 * k : k \in 0..MaxEquityK}
Funds == {140 * k : k \in 0..MaxFundsK}

(***************************************************************************)
(* Program constants (cents, percent, permille).                           *)
(***************************************************************************)
MIN_POSITION_VALUE == 100
MIN_FRACTIONAL_ORDER == 500
MAX_POSITION_VALUE_PERCENT == 50
FRACTIONAL_FUND_BUFFER == 90
MAX_SECTOR_ALLOCATION == 20
MAX_INTERNATIONAL_ALLOCATION == 30
GAP_LARGE_SIZE == 30
GAP_MIN_SIZE == 10
MIN_SIGNAL_CONFIDENCE == 60
MAX_POSITIONS_TOTAL == 8
cache_duration_minutes == 5
max_attempts == 3
base_delay == 10

Min(a, b) == IF a <= b THEN a ELSE b
Max(a, b) == IF a >= b THEN a ELSE b

\* round(n / d): nearest integer, a tie going up exactly when up
RoundDiv(n, d, up) ==
    LET q == n \div d
        r == n % d
    IN  IF 2 * r > d THEN q + 1
        ELSE IF 2 * r < d THEN q
        ELSE IF up THEN q + 1 ELSE q

\* int(n / d) for n, d > 0
FloorDiv(n, d, low) ==
    IF low /\ n % d = 0 /\ n \div d >= 2 THEN (n \div d) - 1 ELSE n \div d

(***************************************************************************)
(* PositionSizeResult: type "none" | "shares" | "dollars"; amount is a     *)
(* share count for "shares" and cents for "dollars".                       *)
(***************************************************************************)
NoPosition(why) == [type |-> "none", amount |-> 0, reason |-> why, factor |-> 100]
WholeShares(q) == [type |-> "shares", amount |-> q, reason |-> "", factor |-> 100]
FractionalDollars(a) == [type |-> "dollars", amount |-> a, reason |-> "", factor |-> 100]

\* min(account_value * MAX_POSITION_VALUE_PERCENT, settled_funds), in 1/100 cent
max_position_value(av, sf) == Min(av * MAX_POSITION_VALUE_PERCENT, sf * 100)

\* get_position_size with the whole-share count taken from the buffered amount
get_position_size_buffered_shares(price, av, sf, up, low) ==
    LET mpv == max_position_value(av, sf)
        buffered_amount == mpv * FRACTIONAL_FUND_BUFFER
        max_whole_shares == FloorDiv(buffered_amount, 10000 * price, low)
    IN  IF mpv < MIN_FRACTIONAL_ORDER * 100
        THEN NoPosition("below fractional minimum")
        ELSE IF max_whole_shares >= 1
        THEN WholeShares(max_whole_shares)
        ELSE IF buffered_amount < MIN_FRACTIONAL_ORDER * 10000
        THEN NoPosition("buffered amount below minimum")
        ELSE FractionalDollars(RoundDiv(buffered_amount, 10000, up))

\* get_position_size that prefers whole shares only from two shares on
get_position_size_two_shares(price, av, sf, up, low) ==
    LET mpv == max_position_value(av, sf)
        max_whole_shares == FloorDiv(mpv, 100 * price, low)
        buffered_amount == mpv * FRACTIONAL_FUND_BUFFER
        final_amount == Min(buffered_amount, price * 99 * 100)
    IN  IF mpv < MIN_FRACTIONAL_ORDER * 100
        THEN NoPosition("below fractional minimum")
        ELSE IF max_whole_shares >= 2
        THEN WholeShares(max_whole_shares)
        ELSE IF buffered_amount < MIN_FRACTIONAL_ORDER * 10000
        THEN NoPosition("buffered amount below minimum")
        ELSE IF final_amount < MIN_FRACTIONAL_ORDER * 10000
        THEN NoPosition("below minimum after adjustment")
        ELSE FractionalDollars(RoundDiv(final_amount, 10000, up))

\* get_position_size with the fractional-order minimum asked of whole shares too
get_position_size_whole_min(price, av, sf, up, low) ==
    LET mpv == max_position_value(av, sf)
        max_whole_shares == FloorDiv(mpv, 100 * price, low)
        buffered_amount == mpv * FRACTIONAL_FUND_BUFFER
        final_amount == Min(buffered_amount, price * 99 * 100)
    IN  IF mpv < MIN_FRACTIONAL_ORDER * 100
        THEN NoPosition("below fractional minimum")
        ELSE IF max_whole_shares >= 1
                /\ max_whole_shares * price >= MIN_FRACTIONAL_ORDER
        THEN WholeShares(max_whole_shares)
        ELSE IF final_amount < MIN_FRACTIONAL_ORDER * 10000
        THEN NoPosition("below minimum after adjustment")
        ELSE FractionalDollars(RoundDiv(final_amount, 10000, up))

\* get_position_size that counts whole shares before it asks for the
\* fractional-order minimum
get_position_size_shares_first(price, av, sf, up, low) ==
    LET mpv == max_position_value(av, sf)
        max_whole_shares == FloorDiv(mpv, 100 * price, low)
        buffered_amount == mpv * FRACTIONAL_FUND_BUFFER
        final_amount == Min(buffered_amount, price * 99 * 100)
    IN  IF mpv < MIN_POSITION_VALUE * 100
        THEN NoPosition("below minimum position value")
        ELSE IF max_whole_shares >= 1
                /\ max_whole_shares * price >= MIN_POSITION_VALUE
        THEN WholeShares(max_whole_shares)
        ELSE IF final_amount < MIN_FRACTIONAL_ORDER * 10000
        THEN NoPosition("below minimum after adjustment")
        ELSE FractionalDollars(RoundDiv(final_amount, 10000, up))

get_position_size(price, av, sf, up, low) ==
    LET mpv == max_position_value(av, sf)
        max_whole_shares == FloorDiv(mpv, 100 * price, low)
        whole_share_value == max_whole_shares * price
        \* max_position_value * FRACTIONAL_FUND_BUFFER, in 1/10000 cent
        buffered_amount == mpv * FRACTIONAL_FUND_BUFFER
        \* signal_price * 0.99, in 1/10000 cent
        max_dollar_for_fractional == price * 99 * 100
        final_amount == Min(buffered_amount, max_dollar_for_fractional)
    IN  IF mpv < MIN_POSITION_VALUE * 100
        THEN NoPosition("below minimum position value")
        ELSE IF mpv < MIN_FRACTIONAL_ORDER * 100
        THEN NoPosition("below fractional minimum")
        ELSE IF max_whole_shares >= 1 /\ whole_share_value >= MIN_POSITION_VALUE
        THEN WholeShares(max_whole_shares)
        ELSE IF buffered_amount < MIN_FRACTIONAL_ORDER * 10000
        THEN NoPosition("buffered amount below minimum")
        ELSE IF buffered_amount >= price * 10000
        THEN IF final_amount < MIN_FRACTIONAL_ORDER * 10000
             THEN NoPosition("below minimum after adjustment")
             ELSE FractionalDollars(RoundDiv(final_amount, 10000, up))
        ELSE FractionalDollars(RoundDiv(buffered_amount, 10000, up))

(***************************************************************************)
(* Signal metadata: none says the signal carries None, present is the      *)
(* truth value of what it carries (None and {} are false), gap_size is     *)
(* metadata.get('gap_size', 0) in permille, and the two flags are          *)
(* metadata.get('requires_shorting', False) and .get('is_day_trade', False).*)
(***************************************************************************)
NoneMetadata == [none |-> TRUE, present |-> FALSE, gap_size |-> 0,
                 requires_shorting |-> FALSE, is_day_trade |-> FALSE]
EmptyMetadata == [none |-> FALSE, present |-> FALSE, gap_size |-> 0,
                  requires_shorting |-> FALSE, is_day_trade |-> FALSE]
Metadata(g, rs, dt) == [none |-> FALSE, present |-> TRUE, gap_size |-> g,
                        requires_shorting |-> rs, is_day_trade |-> dt]

StrategyNames == {"BollingerMeanReversion", "BullishMomentumDip", "GapTrading",
                  "PolicyMomentum", "ValueRate", "SectorRotation", "International"}
GapSizes == {0, 20, 21, 30, 31}

\* The allocation-limit factor of SectorRotation / International, in percent
limit_factor(max_allocation) ==
    LET f == (max_allocation * 100) \div MAX_POSITION_VALUE_PERCENT
    IN  IF f < 100 THEN f ELSE 95

\* adjustment_factor, in percent
adjustment_factor(strategy, metadata) ==
    IF ~metadata.present THEN 100
    ELSE IF strategy = "BullishMomentumDip" THEN 110
    ELSE IF strategy = "GapTrading"
         THEN IF metadata.gap_size > GAP_LARGE_SIZE THEN 50
              ELSE IF metadata.gap_size > GAP_MIN_SIZE * 2 THEN 75
              ELSE 100
    ELSE IF strategy = "PolicyMomentum" THEN 90
    ELSE IF strategy = "ValueRate" THEN 110
    ELSE IF strategy = "SectorRotation" THEN limit_factor(MAX_SECTOR_ALLOCATION)
    ELSE IF strategy = "International" THEN limit_factor(MAX_INTERNATIONAL_ALLOCATION)
    ELSE 100

\* the adjusted amount as it is, with no minimum enforced after it
get_position_size_unchecked_adjustment(price, av, sf, strategy, metadata, up, low) ==
    LET base == get_position_size(price, av, sf, up, low)
        f == adjustment_factor(strategy, metadata)
    IN  IF base.type = "none" THEN base
        ELSE [type |-> base.type,
              amount |-> IF base.type = "dollars"
                         THEN RoundDiv(base.amount * f, 100, up)
                         ELSE (base.amount * f) \div 100,
              reason |-> "", factor |-> f]

get_position_size_with_strategy_adjustments(price, av, sf, strategy, metadata, up, low) ==
    LET base == get_position_size(price, av, sf, up, low)
        f == adjustment_factor(strategy, metadata)
        adjusted_amount ==
            IF base.type = "dollars"
            THEN RoundDiv(base.amount * f, 100, up)
            ELSE Max(1, (base.amount * f) \div 100)
    IN  IF base.type = "none" THEN base
        ELSE IF base.type = "dollars" /\ adjusted_amount < MIN_FRACTIONAL_ORDER
        THEN [type |-> "none", amount |-> 0,
              reason |-> "adjusted amount below minimum", factor |-> f]
        ELSE [type |-> base.type, amount |-> adjusted_amount,
              reason |-> "", factor |-> f]


(***************************************************************************)
(* Rule validator (PersonalTradingConfig).                                 *)
(*                                                                         *)
(* current_positions is the list of position symbols of the account: the   *)
(* symbols among Symbols it holds and the number of its other positions.   *)
(* recent_trades is the set of (symbol, action) of the account's trade     *)
(* records of today; every such record carries today's timestamp, so none  *)
(* is skipped by the 24 hour cutoff.                                       *)
(***************************************************************************)
Symbols == {"AAPL", "KO"}
SignalTypes == {"BUY", "SELL", "SHORT"}
Trade(s, a) == [symbol |-> s, action |-> a]

Holds(positions, s) == s \in positions.symbols
NumPositions(positions) == Cardinality(positions.symbols) + positions.others

\* a check that finds a violation in every trade of the symbol
check_day_trading_violation_any_trade(s, type, trades) ==
    IF ALLOW_DAY_TRADING THEN FALSE
    ELSE \E t \in trades : t.symbol = s

check_day_trading_violation(s, type, trades) ==
    IF ALLOW_DAY_TRADING THEN FALSE
    ELSE IF trades = {} THEN FALSE
    ELSE \E t \in trades :
            /\ t.symbol = s
            /\ \/ type = "SELL" /\ t.action = "BUY"
               \/ type = "BUY" /\ t.action = "SELL"

\* a check that blocks no sale
check_short_selling_violation_never(type, positions, s) == FALSE

check_short_selling_violation(type, positions, s) ==
    IF ALLOW_SHORT_SELLING THEN FALSE
    ELSE type = "SELL" /\ ~Holds(positions, s)

\* The violations list; metadata None makes metadata_dict.get raise
\* AttributeError, which the except clause does not catch.
validate_signal_against_rules(type, metadata) ==
    [raised |-> metadata.none,
     violations |->
        (IF type \notin {"BUY", "SELL"} THEN {"Invalid signal type"} ELSE {})
        \cup (IF type = "SHORT" THEN {"SHORT SELLING BLOCKED"} ELSE {})
        \cup (IF metadata.requires_shorting THEN {"STRATEGY BLOCKED"} ELSE {})
        \cup (IF metadata.is_day_trade /\ ~ALLOW_DAY_TRADING
              THEN {"DAY TRADING BLOCKED"} ELSE {})]

Allow(why) == [ok |-> TRUE, reason |-> why, raised |-> FALSE]
Deny(why) == [ok |-> FALSE, reason |-> why, raised |-> FALSE]
Raised == [ok |-> FALSE, reason |-> "AttributeError", raised |-> TRUE]

should_execute_signal(s, type, conf, metadata, positions, av, trades) ==
    LET structure == validate_signal_against_rules(type, metadata)
        \* account_value * MAX_POSITION_VALUE_PERCENT, in 1/100 cent
        max_pos == av * MAX_POSITION_VALUE_PERCENT
    IN  IF check_short_selling_violation(type, positions, s)
        THEN Deny("SHORT SELLING BLOCKED")
        ELSE IF check_day_trading_violation(s, type, trades)
        THEN Deny("DAY TRADING BLOCKED")
        ELSE IF structure.raised THEN Raised
        ELSE IF structure.violations # {} THEN Deny("RULE VIOLATION")
        ELSE IF conf < MIN_SIGNAL_CONFIDENCE THEN Deny("Confidence below minimum")
        ELSE IF s \in BUY_AND_HOLD_POSITIONS /\ type = "SELL"
        THEN Deny("marked as buy-and-hold")
        ELSE IF type = "BUY" /\ max_pos < MIN_POSITION_VALUE * 100
        THEN Deny("Max position below minimum")
        ELSE IF type = "BUY" /\ max_pos < MIN_FRACTIONAL_ORDER * 100
        THEN Deny("Position below fractional minimum")
        ELSE IF type = "BUY" /\ NumPositions(positions) > 0
                /\ NumPositions(positions) >= MAX_POSITIONS_TOTAL
        THEN Deny("At maximum positions")
        ELSE Allow("Signal meets all criteria")

(***************************************************************************)
(* Day-trade reconciler (EnhancedDayTradingProtection).                    *)
(*                                                                         *)
(* A raw order is what get_history_orders lists, a raw activity what       *)
(* get_activities lists; today says that its date parses to the current    *)
(* day.  Quantities are in 1/10000 share, prices in 1/10 cent.             *)
(***************************************************************************)
RawOrder(s, a, q, pr, today, status) ==
    [symbol |-> s, action |-> a, quantity |-> q, price |-> pr,
     today |-> today, status |-> status]
RawActivity(s, buy, q, pr, today, type) ==
    [symbol |-> s, buy |-> buy, quantity |-> q, price |-> pr,
     today |-> today, type |-> type]

RawOrders == {RawOrder("AAPL", "BUY", 10000, 10000, TRUE, "Filled"),
              RawOrder("AAPL", "SELL", 10000, 10000, TRUE, "Partially Filled"),
              RawOrder("KO", "BUY", 10000, 6000, TRUE, "Cancelled"),
              RawOrder("AAPL", "BUY", 10000, 10000, FALSE, "Filled")}
RawActivities == {RawActivity("AAPL", TRUE, 10000, 10000, TRUE, "trade"),
                  RawActivity("KO", FALSE, 20000, 6000, TRUE, "trade"),
                  RawActivity("KO", TRUE, 20000, 6000, TRUE, "dividend")}

SeqsUpTo(S, n) == UNION {[1..k -> S] : k \in 0..n}

\* What one broker call gives: an exception, or the list under 'data'
Exception == [raised |-> TRUE, data |-> <<>>]
Reply(d) == [raised |-> FALSE, data |-> d]
OrderReplies == {Exception} \cup {Reply(d) : d \in SeqsUpTo(RawOrders, MaxBrokerReply)}
\* at most one activity beside the orders
ActivityReplies == {Exception} \cup {Reply(d) : d \in SeqsUpTo(RawActivities, 1)}

_standardize_webull_order(order) ==
    [symbol |-> order.symbol, action |-> order.action,
     quantity |-> order.quantity, price |-> order.price,
     source |-> "webull_order"]

_standardize_webull_activity(activity) ==
    [symbol |-> activity.symbol,
     action |-> IF activity.buy THEN "BUY" ELSE "SELL",
     quantity |-> activity.quantity, price |-> activity.price,
     source |-> "webull_activity"]

Abs(x) == IF x < 0 THEN -x ELSE x

\* a trade of the same symbol and action is enough, whatever its quantity
\* and price
_is_duplicate_trade_same_pair(new_trade, existing_trades) ==
    \E i \in 1..Len(existing_trades) :
        /\ existing_trades[i].symbol = new_trade.symbol
        /\ existing_trades[i].action = new_trade.action

_is_duplicate_trade(new_trade, existing_trades) ==
    \E i \in 1..Len(existing_trades) :
        LET existing == existing_trades[i]
        IN  /\ existing.symbol = new_trade.symbol
            /\ existing.action = new_trade.action
            /\ Abs(existing.quantity - new_trade.quantity) < 10
            /\ Abs(existing.price - new_trade.price) < 10

Cache(trades) == [is_none |-> FALSE, trades |-> trades]
NoCache == [is_none |-> TRUE, trades |-> <<>>]
At(t) == [is_none |-> FALSE, at |-> t]
NoTimestamp == [is_none |-> TRUE, at |-> 0]

\* "not self._todays_trades_cache" holds of None and of the empty list
_is_cache_valid(cache, timestamp, t) ==
    IF cache.is_none \/ cache.trades = <<>> \/ timestamp.is_none THEN FALSE
    ELSE t - timestamp.at < cache_duration_minutes

FilledToday(order) == order.today /\ order.status \in {"Filled", "Partially Filled"}
TradeToday(activity) == activity.today /\ activity.type \in {"trade", "Trade"}

RECURSIVE AppendOrders(_, _)
AppendOrders(all_trades, data) ==
    IF data = <<>> THEN all_trades
    ELSE AppendOrders(
            IF FilledToday(Head(data))
            THEN Append(all_trades, _standardize_webull_order(Head(data)))
            ELSE all_trades,
            Tail(data))

RECURSIVE AppendActivities(_, _)
AppendActivities(all_trades, data) ==
    IF data = <<>> THEN all_trades
    ELSE AppendActivities(
            IF /\ TradeToday(Head(data))
               /\ ~_is_duplicate_trade(_standardize_webull_activity(Head(data)),
                                       all_trades)
            THEN Append(all_trades, _standardize_webull_activity(Head(data)))
            ELSE all_trades,
            Tail(data))

\* The list returned, the cache fields as the call leaves them, and whether
\* the broker was called.
fetch_todays_webull_trades(cache, timestamp, t, orders, activities) ==
    IF _is_cache_valid(cache, timestamp, t)
    THEN [result |-> cache.trades, cache |-> cache, timestamp |-> timestamp,
          called_api |-> FALSE, both_failed |-> FALSE]
    ELSE LET from_orders == IF orders.raised THEN <<>>
                            ELSE AppendOrders(<<>>, orders.data)
             all_trades == IF activities.raised THEN from_orders
                           ELSE AppendActivities(from_orders, activities.data)
         IN  [result |-> all_trades, cache |-> Cache(all_trades),
              timestamp |-> At(t), called_api |-> TRUE,
              both_failed |-> orders.raised /\ activities.raised]

\* Today's trades as the two broker calls report them now, whatever the cache
reported_trades(orders, activities) ==
    fetch_todays_webull_trades(NoCache, NoTimestamp, 0, orders, activities).result

\* The lists the broker can be reporting
ReportedTrades ==
    {reported_trades(orders, activities) :
        orders \in OrderReplies, activities \in ActivityReplies}

Check(ok, why) == [ran |-> TRUE, ok |-> ok, reason |-> why]
NoCheck == [ran |-> FALSE, ok |-> FALSE, reason |-> "not run"]

_analyze_symbol_trades(symbol_trades, proposed_signal) ==
    LET buy_trades == {i \in 1..Len(symbol_trades) : symbol_trades[i].action = "BUY"}
        sell_trades == {i \in 1..Len(symbol_trades) : symbol_trades[i].action = "SELL"}
    IN  [buy_trades |-> buy_trades,
         sell_trades |-> sell_trades,
         would_create_day_trade |->
            \/ buy_trades # {} /\ proposed_signal = "SELL"
            \/ sell_trades # {} /\ proposed_signal = "BUY",
         can_buy_more |-> sell_trades = {},
         can_sell_more |-> buy_trades = {}]

\* rules that block only the sale of what was bought today
_apply_day_trading_rules_sell_only(type, context) ==
    IF context.buy_trades # {} /\ type = "SELL"
    THEN Check(FALSE, "DAY TRADE BLOCKED")
    ELSE Check(TRUE, "No day trading violation detected")

_apply_day_trading_rules(type, context) ==
    IF context.would_create_day_trade THEN Check(FALSE, "DAY TRADE BLOCKED")
    ELSE IF type = "BUY" /\ ~context.can_buy_more THEN Check(FALSE, "BUY BLOCKED")
    ELSE IF /\ type = "SELL" /\ ~context.can_sell_more
            /\ context.buy_trades = {} /\ ~ALLOW_SHORT_SELLING
    THEN Check(FALSE, "SELL BLOCKED: Would be short selling")
    ELSE Check(TRUE, "No day trading violation detected")

\* todays_trades is the list that fetch_todays_webull_trades returns; it is
\* fetched only when day trading is disabled.
enhanced_day_trading_check(s, type, todays_trades) ==
    LET symbol_trades == SelectSeq(todays_trades, LAMBDA t : t.symbol = s)
    IN  IF ALLOW_DAY_TRADING THEN Check(TRUE, "Day trading allowed in config")
        ELSE IF symbol_trades = <<>>
        THEN Check(TRUE, "No trades found for this symbol today")
        ELSE _apply_day_trading_rules(type, _analyze_symbol_trades(symbol_trades, type))

\* What wb.get_positions shows of the symbol to get_current_position
PositionReplies == {"exception", "none", "zero", "held"}

NotRun == [ok |-> FALSE, reason |-> "not run", raised |-> FALSE]

\* enhanced_should_execute_signal with the day trade check ahead of the
\* config checks
enhanced_should_execute_signal_day_trade_first(s, type, conf, metadata, positions, av, todays_trades, live) ==
    LET original == should_execute_signal(s, type, conf, metadata, positions, av, {})
        dt == enhanced_day_trading_check(s, type, todays_trades)
    IN  IF ~dt.ok
        THEN [result |-> Deny("ENHANCED DAY TRADING PROTECTION"),
              original |-> original, check |-> dt]
        ELSE IF original.raised \/ ~original.ok
        THEN [result |-> original, original |-> original, check |-> NoCheck]
        ELSE IF type = "SELL" /\ live # "held" /\ ~ALLOW_SHORT_SELLING
        THEN [result |-> Deny("SELL BLOCKED: No position to sell"),
              original |-> original, check |-> dt]
        ELSE [result |-> Allow("Enhanced checks passed"),
              original |-> original, check |-> dt]

\* The result, with the config stage's and the day trade check's results
enhanced_should_execute_signal(s, type, conf, metadata, positions, av, todays_trades, live) ==
    LET original == should_execute_signal(s, type, conf, metadata, positions, av, {})
        dt == enhanced_day_trading_check(s, type, todays_trades)
    IN  IF original.raised \/ ~original.ok
        THEN [result |-> original, original |-> original, check |-> NoCheck]
        ELSE IF ~dt.ok
        THEN [result |-> Deny("ENHANCED DAY TRADING PROTECTION"),
              original |-> original, check |-> dt]
        ELSE IF type = "SELL" /\ live # "held" /\ ~ALLOW_SHORT_SELLING
        THEN [result |-> Deny("SELL BLOCKED: No position to sell"),
              original |-> original, check |-> dt]
        ELSE [result |-> Allow("Enhanced checks passed"),
              original |-> original, check |-> dt]

(***************************************************************************)
(* Order executor (execute_trade_automatically_on_account).                *)
(*                                                                         *)
(* Share quantities of orders are counted in 1/100000 share.               *)
(* A reply is what one call of wb.place_order gives: an exception, or the  *)
(* value returned, of which _parse_order_result reads the shape and the    *)
(* 'msg' field.                                                            *)
(***************************************************************************)
BrokerMessages ==
    {"Insufficient funds",
     "Order rejected: fractional trading not available",
     "Does not support fractional shares",
     "Service unavailable"}

\* A returned dictionary is described by the keys _parse_order_result reads:
\* 'success' (absent, True or another value), 'data' (absent, None, a
\* dictionary without or with 'orderId'), 'orderId' and 'msg'
PlaceOrderResult(kind, success, data, orderId, msg) ==
    [kind |-> kind, success |-> success, data |-> data, orderId |-> orderId,
     msg |-> msg]
Response(success, data, orderId, msg) ==
    PlaceOrderResult("dict", success, data, orderId, msg)
Raises == PlaceOrderResult("exception", "absent", "absent", "absent", "absent")
Returns(kind) == PlaceOrderResult(kind, "absent", "absent", "absent", "absent")
Error(msg) == Response("false", "absent", "absent", msg)

\* {'success': True, 'orderId': ...}, {'data': {'orderId': ...}}, {'orderId': ...}
SuccessFlagged == Response("true", "absent", "present", "absent")
DataOrderId == Response("absent", "orderId", "absent", "absent")
TopOrderId == Response("absent", "absent", "present", "absent")
\* {'data': None, 'msg': ...}
NoData == Response("false", "None", "absent", "Service unavailable")

OrderReturns ==
    {Returns("None"), Returns("not a dict"), SuccessFlagged, DataOrderId,
     TopOrderId, NoData}
    \cup {Error(m) : m \in BrokerMessages}
PlaceOrderReplies == {Raises} \cup OrderReturns

\* The three shapes of a successful reply, by the keys present
SuccessShape(reply) ==
    /\ reply.kind = "dict"
    /\ \/ reply.success = "true" /\ reply.orderId = "present"
       \/ reply.data = "orderId"
       \/ reply.orderId = "present"

\* Every value a call of wb.place_order can return
SuccessValues == {"absent", "true", "false"}
DataValues == {"absent", "None", "no orderId", "orderId"}
OrderIdValues == {"absent", "present"}
Responses ==
    {Returns("None"), Returns("not a dict")}
    \cup {Response(f, d, o, m) :
            f \in SuccessValues, d \in DataValues, o \in OrderIdValues,
            m \in {"absent"} \cup BrokerMessages}

_supports_fractional_shares(s) == s # "BRK-A"

\* Method 3 is reached when both submissions raised
_place_fractional_order(standard, rounded) ==
    IF standard.kind # "exception" THEN standard
    ELSE IF rounded.kind # "exception" THEN rounded
    ELSE Error("Fractional order methods exhausted")

\* the messages that contain one of fractional_errors, in lower case
_is_fractional_share_error(error_message) ==
    error_message \in {"Order rejected: fractional trading not available",
                       "Does not support fractional shares"}

\* (success, order_id, error_message), or the TypeError of 'orderId' in None.
\* The order id is the one at the top level, the one under 'data', or the
\* default 'Unknown'.
Parsed(success, order_id, msg) ==
    [success |-> success, order_id |-> order_id, error_message |-> msg,
     raised |-> FALSE]
ParseRaised ==
    [success |-> FALSE, order_id |-> "None", error_message |-> "TypeError",
     raised |-> TRUE]

\* a parser that knows the success flag only
_parse_order_result_flag_only(order_result) ==
    IF order_result.kind = "dict" /\ order_result.success = "true"
    THEN Parsed(TRUE, "top-level orderId", "None")
    ELSE Parsed(FALSE, "None", "Unexpected order result format")

_parse_order_result(order_result) ==
    IF order_result.kind = "None"
    THEN Parsed(FALSE, "None", "No order result received")
    ELSE IF order_result.kind = "dict"
    THEN IF order_result.success = "true"
         THEN Parsed(TRUE, IF order_result.orderId = "present"
                           THEN "top-level orderId" ELSE "Unknown", "None")
         ELSE IF order_result.data = "None" THEN ParseRaised
         ELSE IF order_result.data = "orderId"
         THEN Parsed(TRUE, "data orderId", "None")
         ELSE IF order_result.orderId = "present"
         THEN Parsed(TRUE, "top-level orderId", "None")
         ELSE Parsed(FALSE, "None",
                     IF order_result.msg = "absent" THEN "Order failed"
                     ELSE order_result.msg)
    ELSE Parsed(FALSE, "None", "Unexpected order result format")

\* _is_retryable_trade_error without the denylist
_is_retryable_trade_error_always(error_message) == TRUE

\* _is_retryable_trade_error that retries on fractional share errors only
_is_retryable_trade_error_fractional_only(error_message) ==
    error_message = "Does not support fractional shares"

\* the messages that contain none of non_retryable_messages, in lower case
_is_retryable_trade_error(error_message) ==
    error_message \notin {"Insufficient funds",
                          "Order rejected: fractional trading not available"}

\* round(dollar_amount / price, 5), in 1/100000 share
fractional_quantity(dollar_amount, price, up) ==
    RoundDiv(dollar_amount * 100000, price, up)

\* int(quantity * price / position_info['amount']): the float quotient of
\* two equal numbers comes out as 1 or just below it
fallback_whole_shares(quantity, price, dollar_amount, low) ==
    IF quantity * price = dollar_amount * 100000
    THEN IF low THEN 0 ELSE 1
    ELSE (quantity * price) \div (dollar_amount * 100000)

\* The session check before the loop: wb.get_account_id() answers with an
\* account id, with nothing, or raises; on the last two login_automatically
\* is called once and says whether the session is refreshed
\* a session check that goes on whatever login_automatically returns
session_check_without_login(probe, login) ==
    IF probe = "account id" THEN "alive" ELSE "refreshed"

session_check(probe, login) ==
    IF probe = "account id" THEN "alive"
    ELSE IF login THEN "refreshed"
    ELSE "expired"

\* What the session check met: whether wb.get_account_id() gave an account
\* id, what login_automatically returned if it was called, and the outcome
Unchecked == [probe |-> "not made", login |-> "not called", state |-> "unchecked"]

Session(probe, login) ==
    [probe |-> IF probe = "account id" THEN "succeeded" ELSE "failed",
     login |-> IF probe = "account id" THEN "not called"
               ELSE IF login THEN "succeeded" ELSE "failed",
     state |-> session_check(probe, login)]

\* range(1, max_attempts + 1) with one iteration more
next_attempt_unbounded(n) == n <= max_attempts

\* the loop for attempt in range(1, max_attempts + 1) has an iteration after
\* iteration n
next_attempt(n) == n < max_attempts

\* the same pause before every retry
retry_delay_constant(n) == base_delay

\* delay = base_delay * attempt, slept through before the next attempt
retry_delay(n) == base_delay * n

\* What the sizing part of an attempt leaves: the order to place, or none
Order(mode, quantity) == [placed |-> TRUE, mode |-> mode, quantity |-> quantity]
NoOrder == [placed |-> FALSE, mode |-> "none", quantity |-> 0]

\* a SELL of the whole shares of the position only
order_for_whole_shares_sold(s, type, price, info, positions, held, up, low) ==
    IF type = "BUY"
    THEN IF info.type = "none" THEN NoOrder
         ELSE IF info.type = "dollars"
         THEN IF ~_supports_fractional_shares(s)
              THEN IF FloorDiv(info.amount, price, low) >= 1
                   THEN Order("whole_shares",
                              FloorDiv(info.amount, price, low) * 100000)
                   ELSE NoOrder
              ELSE IF info.amount >= price THEN NoOrder
              ELSE IF fractional_quantity(info.amount, price, up) < 1 THEN NoOrder
              ELSE Order("fractional_shares",
                         fractional_quantity(info.amount, price, up))
         ELSE Order("whole_shares", info.amount * 100000)
    ELSE IF s \notin positions.symbols THEN NoOrder
    ELSE Order("whole_shares", held - (held % 100000))

order_for(s, type, price, info, positions, held, up, low) ==
    IF type = "BUY"
    THEN IF info.type = "none" THEN NoOrder
         ELSE IF info.type = "dollars"
         THEN IF ~_supports_fractional_shares(s)
              THEN IF FloorDiv(info.amount, price, low) >= 1
                   THEN Order("whole_shares",
                              FloorDiv(info.amount, price, low) * 100000)
                   ELSE NoOrder
              ELSE IF info.amount >= price THEN NoOrder
              ELSE IF fractional_quantity(info.amount, price, up) < 1 THEN NoOrder
              ELSE Order("fractional_shares",
                         fractional_quantity(info.amount, price, up))
         ELSE Order("whole_shares", info.amount * 100000)
    ELSE IF s \notin positions.symbols THEN NoOrder
    ELSE Order(IF held % 100000 # 0 THEN "fractional_shares" ELSE "whole_shares",
               held)

\* One iteration of the retry loop on the replies the broker gives to the
\* submissions it makes: standard and rounded to the two fractional
\* submissions (or standard to the one whole-share submission), whole to the
\* whole-share fallback.  returns is "True", "False" or "continue"; calls is
\* the number of wb.place_order calls made; replies are the replies received.
Outcome(returns, replies, fallback) ==
    [returns |-> returns, replies |-> replies, fallback |-> fallback]
NoFallback == [submitted |-> FALSE, quantity |-> 0]
Fallback(whole_shares) == [submitted |-> TRUE, quantity |-> whole_shares]

\* the rest of the iteration once order_result and error_message are those
\* of the last submission
classify(replies, fallback, error_message) ==
    IF ~_is_retryable_trade_error(error_message)
    THEN Outcome("False", replies, fallback)
    ELSE Outcome("continue", replies, fallback)

\* an iteration that goes on to the next attempt whatever the answer
attempt_on_to_next_attempt(order, type, price, info, low, standard, rounded, whole) ==
    IF ~order.placed THEN Outcome("False", <<>>, NoFallback)
    ELSE Outcome("continue", <<standard>>, NoFallback)

attempt_on(order, type, price, info, low, standard, rounded, whole) ==
    LET fractional_buy == order.mode = "fractional_shares" /\ type = "BUY"
        first_replies ==
            IF fractional_buy /\ standard.kind = "exception"
            THEN <<standard, rounded>> ELSE <<standard>>
        order_result ==
            IF fractional_buy THEN _place_fractional_order(standard, rounded)
            ELSE standard
        parsed == _parse_order_result(order_result)
        whole_shares ==
            fallback_whole_shares(order.quantity, price, info.amount, low)
    IN  IF ~order.placed THEN Outcome("False", <<>>, NoFallback)
        ELSE IF order_result.kind = "exception" \/ parsed.raised
        THEN Outcome("continue", first_replies, NoFallback)
        ELSE IF parsed.success THEN Outcome("True", first_replies, NoFallback)
        ELSE IF /\ _is_fractional_share_error(parsed.error_message)
                /\ fractional_buy
                /\ whole_shares >= 1
        THEN IF whole.kind = "exception" \/ _parse_order_result(whole).raised
             THEN Outcome("continue", Append(first_replies, whole),
                          Fallback(whole_shares))
             ELSE IF _parse_order_result(whole).success
             THEN Outcome("True", Append(first_replies, whole),
                          Fallback(whole_shares))
             ELSE classify(Append(first_replies, whole), Fallback(whole_shares),
                           _parse_order_result(whole).error_message)
        ELSE classify(first_replies, NoFallback, parsed.error_message)

\* The quant arguments of the wb.place_order calls of one iteration, in the
\* order of the calls: quantity, round(quantity, 4) when the standard
\* fractional submission raised, whole_shares of the fallback
submitted_quantities(order, o, up) ==
    LET direct == Len(o.replies) - (IF o.fallback.submitted THEN 1 ELSE 0)
        first == IF direct = 0 THEN <<>>
                 ELSE IF direct = 1 THEN <<order.quantity>>
                 ELSE <<order.quantity, RoundDiv(order.quantity, 10, up) * 10>>
    IN  IF o.fallback.submitted
        THEN Append(first, o.fallback.quantity * 100000)
        ELSE first

\* success of _parse_order_result(order_result) on what a call returned
reported_successful(reply) ==
    /\ reply.kind # "exception"
    /\ ~_parse_order_result(reply).raised
    /\ _parse_order_result(reply).success

\* order_id of _parse_order_result(order_result) on what a call returned
parsed_order_id(reply) ==
    IF reported_successful(reply) THEN _parse_order_result(reply).order_id
    ELSE "None"

\* the order ids a parse can give
ParsedOrderIds == {"top-level orderId", "data orderId", "Unknown", "None"}

\* The order a wb.place_order call submits, and what the parse of its
\* answer gives: whether it reports a success, and the order id
PlacedOrder(account, s, action, quantity, reported, order_id) ==
    [account_id |-> account, symbol |-> s, action |-> action,
     quantity |-> quantity, reported |-> reported, order_id |-> order_id]

\* trade_record of log_trade_execution
TradeRecord(account, s, action, quantity, order_id) ==
    [account_id |-> account, symbol |-> s, action |-> action,
     quantity |-> quantity, order_id |-> order_id]

\* 'order_id': order_result.get('orderId', 'N/A')
trade_record_order_id(order_result) ==
    IF order_result.orderId = "present" THEN "top-level orderId" ELSE "N/A"

\* the order ids a record can hold
RecordOrderIds == {"top-level orderId", "N/A"}

\* the quantity that log_trade_execution is given
logged_quantity(order, o) ==
    IF o.fallback.submitted THEN o.fallback.quantity * 100000 ELSE order.quantity

(***************************************************************************)
(* Account snapshot (AccountManager._load_account_details).                *)
(*                                                                         *)
(* The snapshot is the AccountInfo fields the load writes.  What           *)
(* wb.get_account() gives is described by what the load reads of it: the   *)
(* top-level netLiquidation, the netLiquidation or totalMarketValue        *)
(* member, the member that gives the funds of the account's type, the      *)
(* positions that are well formed, whether one that lacks a key follows    *)
(* them, and the remainTradeTimes member.  A reading is a number, Absent   *)
(* or Malformed (a value float() rejects).                                 *)
(***************************************************************************)
Absent == -1
Malformed == -2

Snapshot(net, funds, held, remaining) ==
    [net_liquidation |-> net, settled_funds |-> funds, positions |-> held,
     day_trades_remaining |-> remaining]

AccountData(kind, top, member, funds, held, bad, remaining) ==
    [kind |-> kind, netLiquidation |-> top, member_net |-> member,
     member_funds |-> funds, positions |-> held, bad_position |-> bad,
     remainTradeTimes |-> remaining]

GetAccountRaises == AccountData("raises", Absent, Absent, Absent, {}, FALSE, Absent)
NoAccountData == AccountData("none", Absent, Absent, Absent, {}, FALSE, Absent)

Loaded(result, account) == [result |-> result, account |-> account]

\* the day trades remaining of a cash account when the payload names none
UnlimitedDayTrades == 999

_load_account_details(account, data) ==
    LET \* lines 155-171
        net_raises ==
            IF data.netLiquidation # Absent THEN data.netLiquidation = Malformed
            ELSE data.member_net = Malformed
        with_net ==
            IF data.netLiquidation # Absent
            THEN [account EXCEPT !.net_liquidation = data.netLiquidation]
            ELSE IF data.member_net # Absent
            THEN [account EXCEPT !.net_liquidation = data.member_net]
            ELSE account
        \* lines 174-206
        funds_raise == data.member_funds = Malformed
        zeroed == [with_net EXCEPT !.settled_funds = 0]
        with_funds ==
            IF data.member_funds = Absent THEN zeroed
            ELSE [zeroed EXCEPT !.settled_funds = data.member_funds]
        \* lines 209-221
        with_positions == [with_funds EXCEPT !.positions = data.positions]
        \* _load_day_trading_info, which catches what it raises
        with_day_trades ==
            [with_positions EXCEPT !.day_trades_remaining =
                IF data.remainTradeTimes \in {Absent, Malformed}
                THEN UnlimitedDayTrades ELSE data.remainTradeTimes]
    IN  IF data.kind # "dict" THEN Loaded(FALSE, account)
        ELSE IF net_raises THEN Loaded(FALSE, account)
        ELSE IF funds_raise THEN Loaded(FALSE, zeroed)
        ELSE IF data.bad_position THEN Loaded(FALSE, with_positions)
        ELSE Loaded(TRUE, with_day_trades)

(***************************************************************************)
(* Trade log file (log_trade_execution, lines 764-777).                    *)
(*                                                                         *)
(* A date is a calendar day of November 2025 to January 2026; its          *)
(* isoformat() strings are compared as Python compares strings, which for  *)
(* zero-padded year-month-day is the comparison of the three fields in     *)
(* turn.  A stored record is its date, or NoDate when it has no 'date'     *)
(* key, and a name that tells it from the others.                          *)
(***************************************************************************)
Date(y, mo, d) == [year |-> y, month |-> mo, day |-> d]
NoDate == Date(0, 0, 0)

\* retention of the trade log, in days
RetentionDays == 30

\* the number of the day, counted from 2025-11-01 as day 1
Ordinal(date) ==
    IF date.year = 2025 /\ date.month = 11 THEN date.day
    ELSE IF date.year = 2025 /\ date.month = 12 THEN 30 + date.day
    ELSE 61 + date.day

\* the calendar day of the n-th day from 2025-11-01
FromOrdinal(n) ==
    IF n <= 30 THEN Date(2025, 11, n)
    ELSE IF n <= 61 THEN Date(2025, 12, n - 30)
    ELSE Date(2026, 1, n - 61)

\* (datetime.now() - timedelta(days=30)).date()
cutoff_date(today) == FromOrdinal(Ordinal(today) - RetentionDays)

\* a >= b on the isoformat strings of two dates; '' for a record without date
IsoGE(a, b) ==
    \/ a.year > b.year
    \/ a.year = b.year /\ a.month > b.month
    \/ a.year = b.year /\ a.month = b.month /\ a.day >= b.day

Stored(name, date) == [name |-> name, date |-> date]

LogFile(state, trades) == [state |-> state, trades |-> trades]

\* a filter that drops the records of the cutoff day as well
retained_after_cutoff(t, cutoff) == IsoGE(t.date, cutoff) /\ t.date # cutoff

\* t.get('date', '') >= cutoff_date
retained(t, cutoff) == IsoGE(t.date, cutoff)

\* What the file part of log_trade_execution makes of the file: read is how
\* the file is found, write how the open for writing and the dump end
write_trade_log(file, trade_record, today, write) ==
    LET all_trades == IF file.state = "missing" THEN <<>> ELSE file.trades
        kept == SelectSeq(Append(all_trades, trade_record),
                          LAMBDA t : retained(t, cutoff_date(today)))
    IN  IF file.state = "corrupt" THEN [written |-> FALSE, file |-> file]
        ELSE IF write = "open fails" THEN [written |-> FALSE, file |-> file]
        ELSE IF write = "dump fails"
        THEN [written |-> FALSE, file |-> LogFile("corrupt", <<>>)]
        ELSE [written |-> TRUE, file |-> LogFile("list", kept)]

(***************************************************************************)
(* The sizer as a state machine: one call on arguments drawn at Init.      *)
(***************************************************************************)
MetadataFor(s) ==
    IF s = "GapTrading"
    THEN {NoneMetadata} \cup {Metadata(g, FALSE, FALSE) : g \in GapSizes}
    ELSE {NoneMetadata, Metadata(0, FALSE, FALSE)}

CfgInit ==
    /\ ALLOW_DAY_TRADING \in BOOLEAN
    /\ ALLOW_SHORT_SELLING \in BOOLEAN
    /\ BUY_AND_HOLD_POSITIONS \in {{}, {"KO"}}

\* The class attributes as personal_config.py sets them
CfgDefault ==
    /\ ALLOW_DAY_TRADING = TRUE
    /\ ALLOW_SHORT_SELLING = FALSE
    /\ BUY_AND_HOLD_POSITIONS = {}

SizerInputs ==
    /\ signal_price \in Prices
    /\ account_value \in Equities
    /\ settled_funds \in Funds
    /\ strategy_name \in StrategyNames
    /\ signal_metadata \in MetadataFor(strategy_name)
    /\ round_up \in BOOLEAN
    /\ quotient_low \in BOOLEAN
    /\ base_position = NoPosition("not sized")
    /\ position_info = NoPosition("not sized")
    /\ sz_pc = "args"

\* A BUY signal that is sized only
SignalIdle ==
    /\ symbol = "AAPL"
    /\ signal_type = "BUY"
    /\ confidence = MIN_SIGNAL_CONFIDENCE
    /\ current_positions = [symbols |-> {}, others |-> 0]
    /\ recent_trades = {}

ValidatorIdle ==
    /\ day_trade_protection = FALSE
    /\ original_check = NotRun
    /\ dt_check = NoCheck
    /\ v_result = NotRun
    /\ v_pc = "idle"

\* EnhancedDayTradingProtection.__init__
ReconcilerInit ==
    /\ todays_trades_cache = NoCache
    /\ cache_timestamp = NoTimestamp
    /\ now = 0
    /\ prev_fetch = [made |-> FALSE, result |-> <<>>, at |-> 0, called_api |-> FALSE,
                     both_failed |-> FALSE]
    /\ last_fetch = [made |-> FALSE, result |-> <<>>, at |-> 0, called_api |-> FALSE,
                     both_failed |-> FALSE]
    /\ broker_trades = <<>>

\* the executor is not running
ExecutorAtRest ==
    /\ held_quantity = 0
    /\ ex_pc = "idle"
    /\ attempt = 0
    /\ ex_result = "none"
    /\ place_order_calls = 0
    /\ submitting_attempts = 0
    /\ waited = 0
    /\ all_retryable = TRUE
    /\ denylisted = [seen |-> FALSE, last |-> FALSE, calls |-> 0, waited |-> 0,
                     attempt |-> 0]
    /\ exhausted = [seen |-> FALSE, fallback |-> FALSE, whole_shares |-> 0,
                    attempt |-> 0, waited |-> 0]
    /\ fallback_order = NoFallback
    /\ account_id = "A1"
    /\ session = Unchecked
    /\ placed_orders = <<>>
    /\ first_answer = "none"

\* and no trade of today is on record
ExecutorIdle ==
    /\ ExecutorAtRest
    /\ self_todays_trades = <<>>

\* No run in progress
NotParsed ==
    [success |-> FALSE, order_id |-> "None", error_message |-> "not parsed",
     raised |-> FALSE]

ParserIdle ==
    /\ response = Returns("None")
    /\ parse_result = NotParsed
    /\ prs_pc = "idle"

RefreshIdle ==
    /\ previous_snapshot = Snapshot(0, 0, {}, 0)
    /\ account_snapshot = Snapshot(0, 0, {}, 0)
    /\ account_data = GetAccountRaises
    /\ load_result = "none"
    /\ rf_pc = "idle"

TradeLogIdle ==
    /\ previous_log_file = LogFile("missing", <<>>)
    /\ trade_log_file = LogFile("missing", <<>>)
    /\ log_day = FromOrdinal(61)
    /\ log_outcome = "none"
    /\ lg_pc = "idle"

AccountsIdle ==
    /\ wb_account_id = "A1"
    /\ cache_account_id = "none"
    /\ account_fetch =
          [made |-> FALSE, account_id |-> "none", fetched_under |-> "none",
           from_cache |-> FALSE, result |-> <<>>]

MergeIdle ==
    /\ history_orders = Exception
    /\ account_activities = Exception
    /\ merged_trades = <<>>
    /\ mg_pc = "idle"

LibIdle == ParserIdle /\ RefreshIdle /\ TradeLogIdle /\ AccountsIdle /\ MergeIdle

RunIdle ==
    /\ trading_accounts = <<>>
    /\ all_signals = <<>>
    /\ signal_i = 0
    /\ run_pc = "idle"
    /\ validations = <<>>
    /\ suitable_accounts = <<>>
    /\ best_account = 0
    /\ refreshed = <<>>
    /\ outcomes = <<>>
    /\ authentication = "none"

SizerInit ==
    /\ RunIdle
    /\ LibIdle
    /\ CfgDefault
    /\ SizerInputs
    /\ SignalIdle
    /\ ValidatorIdle
    /\ ReconcilerInit
    /\ ExecutorIdle

Size ==
    /\ sz_pc = "args"
    /\ base_position' = get_position_size(signal_price, account_value,
                                          settled_funds, round_up, quotient_low)
    /\ position_info' = get_position_size_with_strategy_adjustments(
                            signal_price, account_value, settled_funds,
                            strategy_name, signal_metadata, round_up,
                            quotient_low)
    /\ sz_pc' = "sized"
    /\ UNCHANGED <<signal_price, account_value, settled_funds, strategy_name,
                   signal_metadata, round_up, quotient_low>>
    /\ UNCHANGED <<cfg_vars, ex_vars, sig_vars, val_vars, rec_vars>>
    /\ UNCHANGED other_vars

SizerNext == Size

SpecSizer == SizerInit /\ [][SizerNext]_vars

(***************************************************************************)
(* The reconciler as a state machine: the clock advances by minutes, and   *)
(* each call of fetch_todays_webull_trades finds the broker answering with *)
(* any of the replies.  prev_fetch and last_fetch keep the last two calls. *)
(***************************************************************************)
Fetched(f, t) ==
    [made |-> TRUE, result |-> f.result, at |-> t, called_api |-> f.called_api,
     both_failed |-> f.both_failed]

SizerIdle ==
    /\ signal_price = 100
    /\ settled_funds = 0
    /\ strategy_name = "BollingerMeanReversion"
    /\ round_up = FALSE
    /\ quotient_low = FALSE
    /\ base_position = NoPosition("not sized")
    /\ position_info = NoPosition("not sized")
    /\ sz_pc = "idle"

ReconcilerSpecInit ==
    /\ RunIdle
    /\ LibIdle
    /\ CfgDefault
    /\ SizerIdle
    /\ account_value = 0
    /\ signal_metadata = EmptyMetadata
    /\ SignalIdle
    /\ ValidatorIdle
    /\ ReconcilerInit
    /\ ExecutorIdle

Fetch ==
    /\ \E orders \in OrderReplies, activities \in ActivityReplies :
          LET f == fetch_todays_webull_trades(todays_trades_cache,
                        cache_timestamp, now, orders, activities)
          IN  /\ todays_trades_cache' = f.cache
              /\ cache_timestamp' = f.timestamp
              /\ last_fetch' = Fetched(f, now)
              /\ broker_trades' = reported_trades(orders, activities)
    /\ prev_fetch' = last_fetch
    /\ UNCHANGED <<now, cfg_vars, ex_vars, sz_vars, sig_vars, val_vars>>
    /\ UNCHANGED other_vars

Tick ==
    /\ now < MaxClock
    /\ now' = now + 1
    /\ UNCHANGED <<todays_trades_cache, cache_timestamp, prev_fetch, last_fetch,
                   broker_trades>>
    /\ UNCHANGED <<cfg_vars, ex_vars, sz_vars, sig_vars, val_vars>>
    /\ UNCHANGED other_vars

ReconcilerNext == Fetch \/ Tick

SpecReconciler == ReconcilerSpecInit /\ [][ReconcilerNext]_vars

(***************************************************************************)
(* The validator as a state machine: one signal, drawn at Init with the    *)
(* account it is validated for, goes through should_execute_signal when    *)
(* the system has no day_trade_protection, and through                     *)
(* enhanced_should_execute_signal when it has.  recent_trades is the       *)
(* account's part of the system's own log of today's trades; only the      *)
(* first validator is given it.                                            *)
(***************************************************************************)
ValidatorEquities == {0, 250, 1000}
Confidences == {MIN_SIGNAL_CONFIDENCE - 1, MIN_SIGNAL_CONFIDENCE}
ValidatorMetadata ==
    {NoneMetadata, EmptyMetadata, Metadata(0, TRUE, FALSE), Metadata(0, FALSE, TRUE)}
Positions ==
    {[symbols |-> h, others |-> n] : h \in SUBSET Symbols, n \in {0, MaxOtherPositions}}
LocalTrades ==
    {T \in SUBSET {Trade(s, a) : s \in Symbols, a \in {"BUY", "SELL"}} :
        Cardinality(T) <= MaxLocalTrades}

ValidatorInit ==
    /\ RunIdle
    /\ LibIdle
    /\ CfgInit
    /\ SizerIdle
    /\ account_value \in ValidatorEquities
    /\ signal_metadata \in ValidatorMetadata
    /\ symbol \in Symbols
    /\ signal_type \in SignalTypes
    /\ confidence \in Confidences
    /\ current_positions \in Positions
    /\ day_trade_protection \in BOOLEAN
    /\ recent_trades \in LocalTrades
    /\ original_check = NotRun
    /\ dt_check = NoCheck
    /\ v_result = NotRun
    /\ v_pc = "signal"
    /\ ReconcilerInit
    /\ ExecutorIdle

Validate ==
    /\ v_pc = "signal"
    /\ ~day_trade_protection
    /\ v_result' = should_execute_signal(symbol, signal_type, confidence,
                        signal_metadata, current_positions, account_value,
                        recent_trades)
    /\ original_check' = v_result'
    /\ v_pc' = "validated"
    /\ UNCHANGED <<day_trade_protection, dt_check>>
    /\ UNCHANGED <<cfg_vars, ex_vars, sz_vars, sig_vars, rec_vars>>
    /\ UNCHANGED other_vars

\* The broker is called only when the config checks pass and day trading is
\* disabled, and the live position is read only for a SELL that passed the
\* day trading check.  With day trading disabled, broker_trades keeps what
\* the broker reports at the time of the validation, fetched or not.
ValidateEnhanced ==
    /\ v_pc = "signal"
    /\ day_trade_protection
    /\ LET original == should_execute_signal(symbol, signal_type, confidence,
                            signal_metadata, current_positions, account_value, {})
           passes == ~original.raised /\ original.ok
           fetches == passes /\ ~ALLOW_DAY_TRADING
       IN  \E orders \in IF fetches THEN OrderReplies ELSE {Exception},
              activities \in IF fetches THEN ActivityReplies ELSE {Exception},
              reported \in IF fetches \/ ALLOW_DAY_TRADING THEN {<<>>}
                           ELSE ReportedTrades :
              LET f == fetch_todays_webull_trades(todays_trades_cache,
                            cache_timestamp, now, orders, activities)
                  at_broker == IF fetches THEN reported_trades(orders, activities)
                               ELSE reported
                  todays_trades == IF fetches THEN f.result ELSE at_broker
                  reads_position ==
                     /\ signal_type = "SELL" /\ passes
                     /\ enhanced_day_trading_check(symbol, signal_type,
                                                   todays_trades).ok
              IN  \E live \in IF reads_position THEN PositionReplies ELSE {"none"} :
                  \E e \in {enhanced_should_execute_signal(symbol, signal_type,
                                confidence, signal_metadata, current_positions,
                                account_value, todays_trades, live)} :
                     /\ v_result' = e.result
                     /\ original_check' = e.original
                     /\ dt_check' = e.check
                     /\ broker_trades' = at_broker
                     /\ IF fetches
                        THEN /\ todays_trades_cache' = f.cache
                             /\ cache_timestamp' = f.timestamp
                             /\ last_fetch' = Fetched(f, now)
                             /\ prev_fetch' = last_fetch
                        ELSE UNCHANGED <<todays_trades_cache, cache_timestamp,
                                         prev_fetch, last_fetch>>
    /\ v_pc' = "validated"
    /\ UNCHANGED <<day_trade_protection, now>>
    /\ UNCHANGED <<cfg_vars, ex_vars, sz_vars, sig_vars>>
    /\ UNCHANGED other_vars

ValidatorNext == Validate \/ ValidateEnhanced

SpecValidate == ValidatorInit /\ [][ValidatorNext]_vars


(***************************************************************************)
(* The executor as a state machine: the session check, then one step per   *)
(* iteration of the retry loop, the wait before the next one included.     *)
(* The signal is a BUY sized by the filter stage, or a SELL of a position  *)
(* of held_quantity.                                                       *)
(***************************************************************************)
ExecutorSymbols == {"AAPL", "BRK-A"}
HeldQuantities == {150000, 300000}

ExecutorBuy ==
    /\ signal_type = "BUY"
    /\ symbol \in ExecutorSymbols
    /\ signal_price \in Prices
    /\ account_value = 250 * MaxEquityK
    /\ settled_funds \in Funds
    /\ strategy_name = "BollingerMeanReversion"
    /\ signal_metadata \in {EmptyMetadata, Metadata(0, FALSE, FALSE)}
    /\ round_up \in BOOLEAN
    /\ quotient_low \in BOOLEAN
    /\ current_positions = [symbols |-> {}, others |-> 0]
    /\ held_quantity = 0

ExecutorSell ==
    /\ signal_type = "SELL"
    /\ symbol = "AAPL"
    /\ signal_price = 100
    /\ account_value = 250 * MaxEquityK
    /\ settled_funds = 0
    /\ strategy_name = "BollingerMeanReversion"
    /\ signal_metadata = EmptyMetadata
    /\ round_up = FALSE
    /\ quotient_low = FALSE
    /\ current_positions \in {[symbols |-> h, others |-> 0] : h \in {{}, {"AAPL"}}}
    /\ held_quantity \in IF current_positions.symbols = {} THEN {0}
                         ELSE HeldQuantities

ExecutorInit ==
    /\ RunIdle
    /\ LibIdle
    /\ CfgDefault
    /\ ExecutorBuy \/ ExecutorSell
    \* signal.calculated_position_info, as filter_signals_for_account sets it
    /\ base_position = get_position_size(signal_price, account_value,
                                         settled_funds, round_up, quotient_low)
    /\ position_info = get_position_size_with_strategy_adjustments(
                            signal_price, account_value, settled_funds,
                            strategy_name, signal_metadata, round_up,
                            quotient_low)
    /\ sz_pc = "sized"
    /\ confidence = MIN_SIGNAL_CONFIDENCE
    /\ recent_trades = {}
    /\ ValidatorIdle
    /\ ReconcilerInit
    /\ ex_pc = "session"
    /\ attempt = 0
    /\ ex_result = "none"
    /\ place_order_calls = 0
    /\ submitting_attempts = 0
    /\ waited = 0
    /\ all_retryable = TRUE
    /\ denylisted = [seen |-> FALSE, last |-> FALSE, calls |-> 0, waited |-> 0,
                     attempt |-> 0]
    /\ exhausted = [seen |-> FALSE, fallback |-> FALSE, whole_shares |-> 0,
                    attempt |-> 0, waited |-> 0]
    /\ fallback_order = NoFallback
    /\ account_id = "A1"
    /\ session = Unchecked
    /\ placed_orders = <<>>
    /\ self_todays_trades = <<>>
    /\ first_answer = "none"

\* wb.get_account_id() answers, or the session is refreshed, or the call
\* returns False
SessionCheck ==
    /\ ex_pc = "session"
    /\ \E probe \in {"account id", "nothing", "exception"}, login \in BOOLEAN :
          /\ session' = Session(probe, login)
          /\ IF session'.state # "expired"
             THEN /\ ex_pc' = "loop"
                  /\ attempt' = 1
                  /\ ex_result' = ex_result
             ELSE /\ ex_pc' = "done"
                  /\ attempt' = attempt
                  /\ ex_result' = "False"
    /\ UNCHANGED <<held_quantity, place_order_calls, submitting_attempts, waited,
                   all_retryable, denylisted, exhausted, fallback_order,
                   account_id, placed_orders, self_todays_trades,
                   first_answer>>
    /\ UNCHANGED <<cfg_vars, sz_vars, sig_vars, val_vars, rec_vars>>
    /\ UNCHANGED other_vars

\* The messages with a denylisted substring: "insufficient funds" in the
\* first, "order rejected" in the second
OnDenylist(msg) ==
    msg \in {"Insufficient funds",
             "Order rejected: fractional trading not available"}

\* a submission that failed with a retryable error: an exception, or a
\* reply that is no success and whose message is not on the denylist
RetryableFailure(reply) ==
    \/ reply.kind = "exception"
    \/ reply.kind \in {"None", "not a dict"}
    \/ reply = NoData
    \/ reply \in {Error(m) : m \in BrokerMessages} /\ ~OnDenylist(reply.msg)

\* a submission whose error message is on the denylist
DenylistedFailure(reply) ==
    reply \in {Error(m) : m \in BrokerMessages} /\ OnDenylist(reply.msg)

FirstDenylisted(replies) ==
    IF \E i \in 1..Len(replies) : DenylistedFailure(replies[i])
    THEN CHOOSE i \in 1..Len(replies) :
            /\ DenylistedFailure(replies[i])
            /\ \A j \in 1..(i - 1) : ~DenylistedFailure(replies[j])
    ELSE 0

Attempt ==
    /\ ex_pc = "loop"
    /\ \E order \in {order_for(symbol, signal_type, signal_price, position_info,
                              current_positions, held_quantity, round_up,
                              quotient_low)} :
       LET fractional_buy == order.mode = "fractional_shares" /\ signal_type = "BUY"
       IN  \E standard \in IF order.placed THEN PlaceOrderReplies ELSE {Raises} :
           \E rounded \in IF fractional_buy /\ standard.kind = "exception"
                          THEN PlaceOrderReplies ELSE {Raises} :
           \E whole \in IF fractional_buy
                           /\ _is_fractional_share_error(
                                 _parse_order_result(
                                    _place_fractional_order(standard, rounded)
                                 ).error_message)
                        THEN PlaceOrderReplies ELSE {Raises} :
           \E o \in {attempt_on(order, signal_type, signal_price,
                                 position_info, quotient_low, standard,
                                 rounded, whole)} :
              LET waits == o.returns = "continue" /\ next_attempt(attempt)
                  both_raised == /\ fractional_buy
                                 /\ standard.kind = "exception"
                                 /\ rounded.kind = "exception"
                  d == FirstDenylisted(o.replies)
              IN  /\ place_order_calls' = place_order_calls + Len(o.replies)
                  /\ submitting_attempts' =
                        submitting_attempts + IF o.replies # <<>> THEN 1 ELSE 0
                  /\ all_retryable' =
                        /\ all_retryable
                        /\ \A i \in 1..Len(o.replies) : RetryableFailure(o.replies[i])
                  /\ waited' = IF waits THEN waited + retry_delay(attempt)
                               ELSE waited
                  /\ fallback_order' = IF o.fallback.submitted THEN o.fallback
                                       ELSE fallback_order
                  /\ denylisted' =
                        IF denylisted.seen \/ d = 0 THEN denylisted
                        ELSE [seen |-> TRUE, last |-> d = Len(o.replies),
                              calls |-> place_order_calls + d,
                              waited |-> waited, attempt |-> attempt]
                  /\ exhausted' =
                        IF exhausted.seen \/ ~both_raised THEN exhausted
                        ELSE [seen |-> TRUE, fallback |-> o.fallback.submitted,
                              whole_shares |->
                                 fallback_whole_shares(order.quantity,
                                    signal_price, position_info.amount,
                                    quotient_low),
                              attempt |-> attempt, waited |-> waited]
                  /\ placed_orders' =
                        placed_orders \o [i \in 1..Len(o.replies) |->
                                     PlacedOrder(account_id, symbol, signal_type,
                                        submitted_quantities(order, o, round_up)[i],
                                        reported_successful(o.replies[i]),
                                        parsed_order_id(o.replies[i]))]
                  /\ IF waits
                     THEN /\ attempt' = attempt + 1
                          /\ ex_pc' = "loop"
                          /\ ex_result' = ex_result
                     ELSE /\ attempt' = attempt
                          /\ ex_pc' = "done"
                          /\ ex_result' = IF o.returns = "True" THEN "True"
                                          ELSE "False"
                  /\ first_answer' =
                        IF first_answer # "none" \/ o.replies = <<>>
                        THEN first_answer
                        ELSE IF SuccessShape(o.replies[1]) THEN "success shape"
                        ELSE "other"
                  \* log_trade_execution
                  /\ self_todays_trades' =
                        IF o.returns = "True"
                        THEN Append(self_todays_trades,
                                    TradeRecord(account_id, symbol, signal_type,
                                       logged_quantity(order, o),
                                       trade_record_order_id(
                                          o.replies[Len(o.replies)])))
                        ELSE self_todays_trades
    /\ UNCHANGED <<held_quantity, account_id, session, sig_vars>>
    /\ UNCHANGED <<cfg_vars, sz_vars, val_vars, rec_vars>>
    /\ UNCHANGED other_vars

ExecutorNext == SessionCheck \/ Attempt

SpecExec == ExecutorInit /\ [][ExecutorNext]_vars

\* Every call the executor makes returns or raises and every sleep ends, so
\* the executor always takes its next step
SpecExecLive == ExecutorInit /\ [][ExecutorNext]_vars /\ WF_vars(ExecutorNext)


(***************************************************************************)
(* One call of _parse_order_result on a value drawn at Init.               *)
(***************************************************************************)
ParserInit ==
    /\ RunIdle
    /\ CfgDefault
    /\ SizerIdle
    /\ account_value = 0
    /\ signal_metadata = EmptyMetadata
    /\ SignalIdle
    /\ ValidatorIdle
    /\ ReconcilerInit
    /\ ExecutorIdle
    /\ RefreshIdle
    /\ TradeLogIdle
    /\ AccountsIdle
    /\ MergeIdle
    /\ response \in Responses
    /\ parse_result = NotParsed
    /\ prs_pc = "response"

Parse ==
    /\ prs_pc = "response"
    /\ parse_result' = _parse_order_result(response)
    /\ prs_pc' = "parsed"
    /\ UNCHANGED <<response, cfg_vars, sz_vars, sig_vars, val_vars, rec_vars,
                   ex_vars, run_vars, rf_vars, lg_vars, mg_vars, acct_vars>>

ParserNext == Parse

SpecParse == ParserInit /\ [][ParserNext]_vars


(***************************************************************************)
(* One call of refresh_account_details on an account and a payload drawn   *)
(* at Init.                                                                *)
(***************************************************************************)
SnapshotNets == {2250}
SnapshotFunds == {0, 560}
SnapshotHoldings == {{}, {"AAPL"}}
SnapshotDayTrades == {0, 3}
Snapshots ==
    {Snapshot(n, f, h, r) : n \in SnapshotNets, f \in SnapshotFunds,
                            h \in SnapshotHoldings, r \in SnapshotDayTrades}

PayloadNets == {3000}
PayloadMemberNets == {2500}
PayloadFunds == {700}
PayloadHoldings == {{}, {"KO"}}
PayloadDayTrades == {2}
Payloads ==
    {GetAccountRaises, NoAccountData}
    \cup {AccountData("dict", t, n, f, h, b, r) :
            t \in {Absent, Malformed} \cup PayloadNets,
            n \in {Absent, Malformed} \cup PayloadMemberNets,
            f \in {Absent, Malformed} \cup PayloadFunds,
            h \in PayloadHoldings, b \in BOOLEAN,
            r \in {Absent, Malformed} \cup PayloadDayTrades}

RefreshInit ==
    /\ RunIdle
    /\ CfgDefault
    /\ SizerIdle
    /\ account_value = 0
    /\ signal_metadata = EmptyMetadata
    /\ SignalIdle
    /\ ValidatorIdle
    /\ ReconcilerInit
    /\ ExecutorIdle
    /\ ParserIdle
    /\ TradeLogIdle
    /\ AccountsIdle
    /\ MergeIdle
    /\ previous_snapshot \in Snapshots
    /\ account_snapshot = previous_snapshot
    /\ account_data \in Payloads
    /\ load_result = "none"
    /\ rf_pc = "refresh"

\* refresh_account_details(account)
Refresh ==
    /\ rf_pc = "refresh"
    /\ \E l \in {_load_account_details(account_snapshot, account_data)} :
          /\ account_snapshot' = l.account
          /\ load_result' = IF l.result THEN "True" ELSE "False"
    /\ rf_pc' = "refreshed"
    /\ UNCHANGED <<previous_snapshot, account_data, cfg_vars, sz_vars, sig_vars,
                   val_vars, rec_vars, ex_vars, run_vars, prs_vars, lg_vars,
                   mg_vars, acct_vars>>

RefreshNext == Refresh

SpecRefresh == RefreshInit /\ [][RefreshNext]_vars


(***************************************************************************)
(* One call of log_trade_execution on a trade log file and a day drawn at  *)
(* Init.                                                                   *)
(***************************************************************************)
Todays == {FromOrdinal(61), FromOrdinal(62), FromOrdinal(92)}

\* the days a stored record may bear on the day today
StoredDates(today) ==
    {NoDate}
    \cup {FromOrdinal(Ordinal(today) - back) :
            back \in {0, 1, RetentionDays - 1, RetentionDays, RetentionDays + 1}}

StoredLists(today) ==
    UNION {[1..n -> StoredDates(today)] : n \in 0..MaxStored}

LogFiles(today) ==
    {LogFile("missing", <<>>), LogFile("corrupt", <<>>)}
    \cup {LogFile("list", [i \in 1..Len(d) |-> Stored(i, d[i])]) :
            d \in StoredLists(today)}

TradeLogInit ==
    /\ RunIdle
    /\ CfgDefault
    /\ SizerIdle
    /\ account_value = 0
    /\ signal_metadata = EmptyMetadata
    /\ SignalIdle
    /\ ValidatorIdle
    /\ ReconcilerInit
    /\ ExecutorIdle
    /\ ParserIdle
    /\ RefreshIdle
    /\ AccountsIdle
    /\ MergeIdle
    /\ log_day \in Todays
    /\ trade_log_file \in LogFiles(log_day)
    /\ previous_log_file = trade_log_file
    /\ log_outcome = "none"
    /\ lg_pc = "log"

\* log_trade_execution: the record joins self.todays_trades, then the file
\* is read, pruned and written
LogTradeExecution ==
    /\ lg_pc = "log"
    /\ \E id \in RecordOrderIds :
          self_todays_trades' =
             Append(self_todays_trades,
                    TradeRecord(account_id, symbol, signal_type, held_quantity,
                                id))
    /\ \E write \in {"ok", "open fails", "dump fails"} :
       \E w \in {write_trade_log(trade_log_file, Stored(0, log_day), log_day, write)} :
          /\ trade_log_file' = w.file
          /\ log_outcome' = IF w.written THEN "written" ELSE "not written"
    /\ lg_pc' = "logged"
    /\ UNCHANGED <<previous_log_file, log_day>>
    /\ UNCHANGED <<held_quantity, ex_pc, attempt, ex_result, place_order_calls,
                   submitting_attempts, waited, all_retryable, denylisted,
                   exhausted, fallback_order, account_id, session, placed_orders,
                   first_answer>>
    /\ UNCHANGED <<cfg_vars, sz_vars, sig_vars, val_vars, rec_vars, run_vars,
                   prs_vars, rf_vars, mg_vars, acct_vars>>

TradeLogNext == LogTradeExecution

SpecTradeLog == TradeLogInit /\ [][TradeLogNext]_vars


(***************************************************************************)
(* The reconciler and the account of the broker client: calls of           *)
(* fetch_todays_webull_trades for an account, switches of the client       *)
(* between accounts, and the clock.                                        *)
(***************************************************************************)
AccountIds == {"A1", "A2"}

NotFetched ==
    [made |-> FALSE, account_id |-> "none", fetched_under |-> "none",
     from_cache |-> FALSE, result |-> <<>>]

\* a call's argument, the account the client was on when the list it
\* returns was fetched, and whether the list came from the cache
FetchedFor(id, under, f) ==
    [made |-> TRUE, account_id |-> id, fetched_under |-> under,
     from_cache |-> ~f.called_api, result |-> f.result]

AccountsInit ==
    /\ RunIdle
    /\ CfgDefault
    /\ SizerIdle
    /\ account_value = 0
    /\ signal_metadata = EmptyMetadata
    /\ SignalIdle
    /\ ValidatorIdle
    /\ ReconcilerInit
    /\ ExecutorIdle
    /\ ParserIdle
    /\ RefreshIdle
    /\ TradeLogIdle
    /\ MergeIdle
    /\ wb_account_id \in AccountIds
    /\ cache_account_id = "none"
    /\ account_fetch = NotFetched

\* switch_to_account, and the assignment at the head of
\* _load_account_details: self.wb._account_id = account.account_id
SwitchToAccount ==
    /\ \E id \in AccountIds \ {wb_account_id} : wb_account_id' = id
    /\ UNCHANGED <<cache_account_id, account_fetch>>
    /\ UNCHANGED <<cfg_vars, sz_vars, sig_vars, val_vars, rec_vars, ex_vars,
                   run_vars, prs_vars, rf_vars, mg_vars, lg_vars>>

\* fetch_todays_webull_trades(account_id): the broker calls are made on the
\* account the client is on, which _standardize_webull_order writes on the
\* trades
FetchForAccount ==
    /\ \E id \in AccountIds, orders \in OrderReplies :
       \E f \in {fetch_todays_webull_trades(todays_trades_cache,
                     cache_timestamp, now, orders, Exception)} :
          /\ todays_trades_cache' = f.cache
          /\ cache_timestamp' = f.timestamp
          /\ cache_account_id' =
                IF f.called_api THEN wb_account_id ELSE cache_account_id
          /\ account_fetch' = FetchedFor(id, cache_account_id', f)
    /\ UNCHANGED <<wb_account_id, now, prev_fetch, last_fetch, broker_trades>>
    /\ UNCHANGED <<cfg_vars, sz_vars, sig_vars, val_vars, ex_vars, run_vars,
                   prs_vars, rf_vars, mg_vars, lg_vars>>

AccountsNext == SwitchToAccount \/ FetchForAccount \/ Tick

SpecAccounts == AccountsInit /\ [][AccountsNext]_vars

(***************************************************************************)
(* One merge of the two broker lists (fetch_todays_webull_trades with no   *)
(* valid cache): the filled orders of today are appended as they come,     *)
(* then the trade activities of today that _is_duplicate_trade does not    *)
(* find in the list built so far.  The broker's records carry a symbol, so *)
(* standardising one gives a trade.                                        *)
(***************************************************************************)
MergeActivities ==
    RawActivities \cup
        {RawActivity("AAPL", TRUE, 10005, 10005, TRUE, "trade"),
         RawActivity("AAPL", TRUE, 10020, 10000, TRUE, "trade"),
         RawActivity("AAPL", TRUE, 10000, 10020, TRUE, "trade")}

MergeOrderReplies ==
    {Exception} \cup {Reply(d) : d \in SeqsUpTo(RawOrders, MaxMergeReply)}
MergeActivityReplies ==
    {Exception} \cup {Reply(d) : d \in SeqsUpTo(MergeActivities, MaxMergeReply)}

MergeInit ==
    /\ RunIdle
    /\ CfgDefault
    /\ SizerIdle
    /\ account_value = 0
    /\ signal_metadata = EmptyMetadata
    /\ SignalIdle
    /\ ValidatorIdle
    /\ ReconcilerInit
    /\ ExecutorIdle
    /\ ParserIdle
    /\ RefreshIdle
    /\ TradeLogIdle
    /\ AccountsIdle
    /\ history_orders \in MergeOrderReplies
    /\ account_activities \in MergeActivityReplies
    /\ merged_trades = <<>>
    /\ mg_pc = "fetch"

MergeBrokerTrades ==
    /\ mg_pc = "fetch"
    /\ merged_trades' = reported_trades(history_orders, account_activities)
    /\ mg_pc' = "fetched"
    /\ UNCHANGED <<history_orders, account_activities>>
    /\ UNCHANGED <<cfg_vars, sz_vars, sig_vars, val_vars, rec_vars, ex_vars,
                   run_vars, prs_vars, rf_vars, lg_vars, acct_vars>>

SpecMerge == MergeInit /\ [][MergeBrokerTrades]_vars

(***************************************************************************)
(* The run (run_enhanced_automated_analysis, step 6): the signals are      *)
(* taken one at a time; each is filtered for every account                 *)
(* (filter_signals_for_account), the account with the greatest settled     *)
(* funds among the suitable ones is selected, the order executor runs on   *)
(* it, and a successful execution is followed by a refresh of its account. *)
(* An exception of the rule validator ends the run (the handler of         *)
(* run_enhanced_automated_analysis returns False).                         *)
(***************************************************************************)
Account(id, equity, funds, held) ==
    [account_id |-> id, net_liquidation |-> equity, settled_funds |-> funds,
     positions |-> [symbols |-> held, others |-> 0]]

Signal(s, type, price, conf, metadata) ==
    [symbol |-> s, signal_type |-> type, price |-> price, confidence |-> conf,
     strategy |-> "BollingerMeanReversion", metadata |-> metadata]

\* account_trades, as the (symbol, action) pairs the validator reads
account_trades(trades, id) ==
    {Trade(trades[i].symbol, trades[i].action) :
        i \in {j \in 1..Len(trades) : trades[j].account_id = id}}

NumAccountTrades(trades, id) ==
    Cardinality({j \in 1..Len(trades) : trades[j].account_id = id})

\* What filter_signals_for_account makes of one signal for one account: the
\* validator's answer, whether the signal is kept, and the position_info it
\* writes on the signal when it keeps a BUY.  fetched is the list the
\* reconciler returns, live what wb.get_positions shows.
Filtered(validation, kept, info) ==
    [validation |-> validation, kept |-> kept, position_info |-> info]

\* the filter without the per-account trade limit
filter_signals_for_account_unlimited(signal, account, trades, fetched, live, up, low) ==
    LET validation ==
            IF day_trade_protection
            THEN enhanced_should_execute_signal(signal.symbol,
                    signal.signal_type, signal.confidence, signal.metadata,
                    account.positions, account.net_liquidation, fetched,
                    live).result
            ELSE should_execute_signal(signal.symbol, signal.signal_type,
                    signal.confidence, signal.metadata, account.positions,
                    account.net_liquidation,
                    account_trades(trades, account.account_id))
        info == get_position_size_with_strategy_adjustments(signal.price,
                    account.net_liquidation, account.settled_funds,
                    signal.strategy, signal.metadata, up, low)
    IN  IF validation.raised \/ ~validation.ok
        THEN Filtered(validation, FALSE, NoPosition("not sized"))
        ELSE IF signal.symbol \in BUY_AND_HOLD_POSITIONS
                /\ signal.signal_type = "SELL"
        THEN Filtered(validation, FALSE, NoPosition("not sized"))
        ELSE IF signal.signal_type = "BUY"
        THEN Filtered(validation, info.type # "none", info)
        ELSE Filtered(validation, TRUE, NoPosition("not sized"))

filter_signals_for_account(signal, account, trades, fetched, live, up, low) ==
    LET validation ==
            IF day_trade_protection
            THEN enhanced_should_execute_signal(signal.symbol,
                    signal.signal_type, signal.confidence, signal.metadata,
                    account.positions, account.net_liquidation, fetched,
                    live).result
            ELSE should_execute_signal(signal.symbol, signal.signal_type,
                    signal.confidence, signal.metadata, account.positions,
                    account.net_liquidation,
                    account_trades(trades, account.account_id))
        info == get_position_size_with_strategy_adjustments(signal.price,
                    account.net_liquidation, account.settled_funds,
                    signal.strategy, signal.metadata, up, low)
    IN  IF NumAccountTrades(trades, account.account_id) >= MAX_POSITIONS_TOTAL
        THEN Filtered(NotRun, FALSE, NoPosition("not sized"))
        ELSE IF validation.raised \/ ~validation.ok
        THEN Filtered(validation, FALSE, NoPosition("not sized"))
        ELSE IF signal.symbol \in BUY_AND_HOLD_POSITIONS
                /\ signal.signal_type = "SELL"
        THEN Filtered(validation, FALSE, NoPosition("not sized"))
        ELSE IF signal.signal_type = "BUY"
        THEN Filtered(validation, info.type # "none", info)
        ELSE Filtered(validation, TRUE, NoPosition("not sized"))

\* max(suitable_accounts, key=settled_funds) taking the last of the greatest
select_last_greatest(suitable, accounts) ==
    suitable[CHOOSE k \in 1..Len(suitable) :
        /\ \A j \in 1..Len(suitable) :
              accounts[suitable[j]].settled_funds
                 <= accounts[suitable[k]].settled_funds
        /\ \A j \in (k + 1)..Len(suitable) :
              accounts[suitable[j]].settled_funds
                 < accounts[suitable[k]].settled_funds]

\* max(suitable_accounts, key=settled_funds): the first of the greatest
select_best_account(suitable, accounts) ==
    suitable[CHOOSE k \in 1..Len(suitable) :
        /\ \A j \in 1..Len(suitable) :
              accounts[suitable[j]].settled_funds
                 <= accounts[suitable[k]].settled_funds
        /\ \A j \in 1..(k - 1) :
              accounts[suitable[j]].settled_funds
                 < accounts[suitable[k]].settled_funds]

\* signal.calculated_position_info: every kept BUY overwrites it on the one
\* signal object, so the last suitable account's sizing stays
calculated_position_info(filtered, suitable) ==
    IF suitable = <<>> THEN NoPosition("not sized")
    ELSE filtered[suitable[Len(suitable)]].position_info

\* What auto_manage_session makes of the session file
SavedSessions == {"loaded", "none", "raises"}

\* authenticate: whether the run is logged in, by which way, and whether
\* self.day_trade_protection is set (it is None after construction);
\* verified is check_login_status, login is login_automatically
authenticate(saved, verified, login) ==
    IF saved = "raises"
    THEN [result |-> FALSE, by |-> "failed", day_trade_protection |-> FALSE]
    ELSE IF saved = "loaded" /\ verified
    THEN [result |-> TRUE, by |-> "saved session", day_trade_protection |-> FALSE]
    ELSE IF login
    THEN [result |-> TRUE, by |-> "fresh login", day_trade_protection |-> TRUE]
    ELSE [result |-> FALSE, by |-> "failed", day_trade_protection |-> FALSE]

\* signal.target_account: written beside calculated_position_info, so the
\* last suitable account's id stays
target_account(suitable, accounts) ==
    IF suitable = <<>> THEN "none"
    ELSE accounts[suitable[Len(suitable)]].account_id

PipelineFunds == {560, 1260}
PipelineHoldings == {{}, {"AAPL", "KO"}}
PipelineEquity == 2250
PipelinePrice == 650
PipelineQuantity == 150000

PipelineAccounts ==
    {<<Account("A1", PipelineEquity, f1, h1),
       Account("A2", PipelineEquity, f2, {"AAPL", "KO"})>> :
        f1 \in PipelineFunds, f2 \in PipelineFunds, h1 \in PipelineHoldings}

PipelineSignals ==
    {Signal("AAPL", "BUY", PipelinePrice, MIN_SIGNAL_CONFIDENCE, EmptyMetadata),
     Signal("AAPL", "SELL", PipelinePrice, MIN_SIGNAL_CONFIDENCE, EmptyMetadata),
     Signal("KO", "SELL", PipelinePrice, MIN_SIGNAL_CONFIDENCE + 35, EmptyMetadata),
     Signal("AAPL", "BUY", PipelinePrice, MIN_SIGNAL_CONFIDENCE - 1, EmptyMetadata),
     Signal("KO", "BUY", PipelinePrice, MIN_SIGNAL_CONFIDENCE, NoneMetadata)}

\* the second signal is a BUY or a SELL of the symbol the first may trade,
\* or the signal without metadata
PipelineSignalLists ==
    {<<a, b>> : a \in PipelineSignals,
                b \in {c \in PipelineSignals :
                          c.confidence = MIN_SIGNAL_CONFIDENCE}}

PipelineRunStart ==
    /\ ALLOW_DAY_TRADING = FALSE
    /\ ALLOW_SHORT_SELLING \in BOOLEAN
    /\ BUY_AND_HOLD_POSITIONS = {"KO"}
    /\ day_trade_protection = FALSE
    /\ SizerIdle
    /\ account_value = 0
    /\ signal_metadata = EmptyMetadata
    /\ SignalIdle
    /\ original_check = NotRun
    /\ dt_check = NoCheck
    /\ v_result = NotRun
    /\ v_pc = "idle"
    /\ ReconcilerInit
    /\ ExecutorAtRest
    /\ LibIdle
    /\ signal_i = 1
    /\ run_pc = "authenticate"
    /\ validations = <<>>
    /\ suitable_accounts = <<>>
    /\ best_account = 0
    /\ refreshed = <<>>
    /\ outcomes = <<>>
    /\ authentication = "none"

PipelineStart ==
    /\ PipelineRunStart
    /\ self_todays_trades = <<>>

PipelineInit ==
    /\ PipelineStart
    /\ trading_accounts \in PipelineAccounts
    /\ all_signals \in PipelineSignalLists

\* Accounts whose funds give a fractional size of $5.20, 0.8 share at the
\* signals' price: the quotient quantity * price / amount of the whole-share
\* fallback comes out as 1
FallbackFunds == {565, 1260}
FallbackAccounts ==
    {<<Account("A1", PipelineEquity, 565, {}),
       Account("A2", PipelineEquity, f2, {"AAPL", "KO"})>> :
        f2 \in FallbackFunds}

\* a BUY, then any of the signals that pass the confidence filter
FallbackSignalLists ==
    {l \in PipelineSignalLists :
        /\ l[1].signal_type = "BUY"
        /\ l[1].confidence = MIN_SIGNAL_CONFIDENCE
        /\ l[1].metadata = EmptyMetadata}

\* Runs that start with trade records of today, loaded from the trade log:
\* each account one short of MAX_POSITIONS_TOTAL or at it
StartRecords(account, n) ==
    [i \in 1..n |-> TradeRecord(account, "KO", "BUY", PipelineQuantity, "N/A")]
StartCounts == {MAX_POSITIONS_TOTAL - 1, MAX_POSITIONS_TOTAL}
LimitAccounts ==
    {<<Account("A1", PipelineEquity, 1260, {}),
       Account("A2", PipelineEquity, f2, {"AAPL", "KO"})>> :
        f2 \in PipelineFunds}

PipelineLimitInit ==
    /\ PipelineRunStart
    /\ \E n1 \in StartCounts, n2 \in StartCounts :
          self_todays_trades = StartRecords("A1", n1) \o StartRecords("A2", n2)
    /\ trading_accounts \in LimitAccounts
    /\ all_signals \in PipelineSignalLists

PipelineFallbackInit ==
    /\ PipelineStart
    /\ trading_accounts \in FallbackAccounts
    /\ all_signals \in FallbackSignalLists

\* Step 1 of the run: the saved session or a fresh login; the run ends when
\* neither gives a session
Authenticate ==
    /\ run_pc = "authenticate"
    /\ \E saved \in SavedSessions, verified \in BOOLEAN, login \in BOOLEAN :
       \E a \in {authenticate(saved, verified, login)} :
          /\ authentication' = a.by
          /\ day_trade_protection' = a.day_trade_protection
          /\ run_pc' = IF a.result THEN "safety checks" ELSE "not authenticated"
    /\ UNCHANGED <<cfg_vars, sz_vars, sig_vars, original_check, dt_check,
                   v_result, v_pc, rec_vars, ex_vars, trading_accounts,
                   all_signals, signal_i, validations, suitable_accounts,
                   best_account, refreshed, outcomes, lib_vars>>

\* check_safety_limits_for_accounts: whether the run goes on to trade, and
\* the accounts it trades with.  An account with MAX_POSITIONS_TOTAL trade
\* records of today, too little value or too little settled funds is left
\* out; the run does not trade when the records of all accounts together
\* reach the system-wide limit or no account is left.
Eligible_account(account, trades) ==
    /\ NumAccountTrades(trades, account.account_id) < MAX_POSITIONS_TOTAL
    /\ account.net_liquidation >= MIN_POSITION_VALUE
    /\ account.settled_funds >= MIN_FRACTIONAL_ORDER

check_safety_limits_for_accounts(accounts, trades) ==
    LET eligible_accounts ==
            SelectSeq(accounts, LAMBDA a : Eligible_account(a, trades))
    IN  IF Len(trades) >= MAX_POSITIONS_TOTAL * Len(accounts)
        THEN [result |-> FALSE, trading_accounts |-> accounts]
        ELSE IF eligible_accounts # <<>>
        THEN [result |-> TRUE, trading_accounts |-> eligible_accounts]
        ELSE [result |-> FALSE, trading_accounts |-> accounts]

\* Step 3 of the run: the run ends without trading when the safety limits
\* are not met
CheckSafetyLimits ==
    /\ run_pc = "safety checks"
    /\ \E c \in {check_safety_limits_for_accounts(trading_accounts,
                                                  self_todays_trades)} :
          /\ trading_accounts' = c.trading_accounts
          /\ run_pc' = IF c.result THEN "signals" ELSE "limits not met"
    /\ UNCHANGED <<cfg_vars, sz_vars, sig_vars, val_vars, rec_vars, ex_vars,
                   all_signals, signal_i, validations, suitable_accounts,
                   best_account, refreshed, outcomes, authentication, lib_vars>>

\* What get_history_orders gives during the run: the replies of the
\* reconciler's model, and a list with a filled order of today in a symbol
\* that no signal of the run trades
PipelineOrderReplies ==
    OrderReplies
    \cup {Reply(<<RawOrder("KO", "BUY", 10000, 6000, TRUE, "Filled")>>)}

\* One pass of the loop over all_signals up to the call of the executor
ProcessSignal ==
    /\ run_pc = "signals"
    /\ signal_i <= Len(all_signals)
    /\ LET signal == all_signals[signal_i]
           n == Len(trading_accounts)
           skipped ==
              IF signal.confidence < MIN_SIGNAL_CONFIDENCE
              THEN "confidence filtered"
              ELSE IF signal.symbol \in BUY_AND_HOLD_POSITIONS
                      /\ signal.signal_type = "SELL"
              THEN "buy-and-hold protected"
              ELSE "no"
           asks_broker ==
              skipped = "no" /\ day_trade_protection /\ ~ALLOW_DAY_TRADING
           asks_position ==
              skipped = "no" /\ day_trade_protection /\ signal.signal_type = "SELL"
       IN  \E replied \in IF asks_broker THEN PipelineOrderReplies ELSE {Exception},
              live \in IF asks_position THEN PositionReplies ELSE {"none"} :
           LET f == fetch_todays_webull_trades(todays_trades_cache,
                        cache_timestamp, now, replied, Exception)
               filtered == [k \in 1..n |->
                   filter_signals_for_account(signal, trading_accounts[k],
                       self_todays_trades, f.result, live, round_up, quotient_low)]
               raises == \E k \in 1..n : filtered[k].validation.raised
               suitable == SelectSeq([k \in 1..n |-> k],
                                     LAMBDA k : filtered[k].kept)
               best == IF suitable = <<>> THEN 0
                       ELSE select_best_account(suitable, trading_accounts)
               executes == skipped = "no" /\ ~raises /\ suitable # <<>>
           IN  /\ validations' = IF skipped = "no"
                                 THEN [k \in 1..n |-> filtered[k].validation]
                                 ELSE <<>>
               /\ suitable_accounts' = IF skipped = "no" /\ ~raises
                                       THEN suitable ELSE <<>>
               /\ best_account' = IF executes THEN best ELSE 0
               /\ IF asks_broker
                  THEN /\ todays_trades_cache' = f.cache
                       /\ cache_timestamp' = f.timestamp
                  ELSE UNCHANGED <<todays_trades_cache, cache_timestamp>>
               /\ IF executes
                  THEN /\ run_pc' = "executing"
                       /\ outcomes' = outcomes
                       /\ signal_i' = signal_i
                       /\ account_id' = trading_accounts[best].account_id
                       /\ symbol' = signal.symbol
                       /\ signal_type' = signal.signal_type
                       /\ confidence' = signal.confidence
                       /\ signal_price' = signal.price
                       /\ signal_metadata' = signal.metadata
                       /\ account_value' = trading_accounts[best].net_liquidation
                       /\ settled_funds' = trading_accounts[best].settled_funds
                       /\ current_positions' = trading_accounts[best].positions
                       /\ held_quantity' =
                            IF signal.symbol \in trading_accounts[best].positions.symbols
                            THEN PipelineQuantity ELSE 0
                       /\ position_info' =
                            IF signal.signal_type = "BUY"
                            THEN calculated_position_info(filtered, suitable)
                            ELSE NoPosition("not sized")
                       /\ ex_pc' = "session"
                       /\ attempt' = 0
                       /\ ex_result' = "none"
                       /\ place_order_calls' = 0
                       /\ submitting_attempts' = 0
                       /\ waited' = 0
                       /\ all_retryable' = TRUE
                       /\ denylisted' = [seen |-> FALSE, last |-> FALSE,
                                         calls |-> 0, waited |-> 0, attempt |-> 0]
                       /\ exhausted' = [seen |-> FALSE, fallback |-> FALSE,
                                        whole_shares |-> 0, attempt |-> 0,
                                        waited |-> 0]
                       /\ fallback_order' = NoFallback
                       /\ session' = Unchecked
                       /\ placed_orders' = <<>>
                       /\ first_answer' = "none"
                  ELSE /\ run_pc' = IF raises /\ skipped = "no" THEN "error"
                                    ELSE "signals"
                       /\ signal_i' = IF raises /\ skipped = "no" THEN signal_i
                                      ELSE signal_i + 1
                       /\ outcomes' = Append(outcomes,
                            IF skipped # "no" THEN skipped
                            ELSE IF raises THEN "validator raised"
                            ELSE "no suitable account")
                       /\ UNCHANGED <<account_id, symbol, signal_type, confidence,
                                      signal_price, signal_metadata, account_value,
                                      settled_funds, current_positions,
                                      held_quantity, position_info, ex_pc, attempt,
                                      ex_result, place_order_calls,
                                      submitting_attempts, waited, all_retryable,
                                      denylisted, exhausted, fallback_order,
                                      session, placed_orders, first_answer>>
    /\ UNCHANGED <<cfg_vars, val_vars, strategy_name, round_up, quotient_low,
                   base_position, sz_pc, recent_trades, now, prev_fetch,
                   last_fetch, broker_trades, self_todays_trades,
                   trading_accounts, all_signals, refreshed, authentication,
                   lib_vars>>

\* What refresh_account_details makes of the account the trade ran on: the
\* snapshot stays when wb.get_account() gives nothing or raises, and is
\* replaced by the broker's, with or without the trade in its positions
refresh_account_details(account, s, type, reply) ==
    IF reply = "trade shown"
    THEN [account EXCEPT !.positions.symbols =
            IF type = "BUY" THEN @ \cup {s} ELSE @ \ {s}]
    ELSE account

\* a loop that takes every return of the executor for an executed trade
trade_executed_whatever(result) == TRUE

\* if self.execute_trade_automatically_on_account(best_account, signal_to_execute)
trade_executed(result) == result = "True"

\* The return of the executor to the loop: refresh and pause after a trade
AfterExecution ==
    /\ run_pc = "executing"
    /\ ex_pc = "done"
    /\ IF trade_executed(ex_result)
       THEN \E reply \in {"no data", "trade not shown", "trade shown"} :
               /\ trading_accounts' =
                     [trading_accounts EXCEPT ![best_account] =
                         refresh_account_details(@, symbol, signal_type, reply)]
               /\ refreshed' = Append(refreshed, account_id)
               /\ outcomes' = Append(outcomes, "executed")
       ELSE /\ outcomes' = Append(outcomes, "failed")
            /\ UNCHANGED <<trading_accounts, refreshed>>
    /\ signal_i' = signal_i + 1
    /\ run_pc' = "signals"
    \* the executor's locals are gone
    /\ ex_pc' = "idle"
    /\ attempt' = 0
    /\ ex_result' = "none"
    /\ place_order_calls' = 0
    /\ submitting_attempts' = 0
    /\ waited' = 0
    /\ all_retryable' = TRUE
    /\ denylisted' = [seen |-> FALSE, last |-> FALSE, calls |-> 0, waited |-> 0,
                      attempt |-> 0]
    /\ exhausted' = [seen |-> FALSE, fallback |-> FALSE, whole_shares |-> 0,
                     attempt |-> 0, waited |-> 0]
    /\ fallback_order' = NoFallback
    /\ session' = Unchecked
    /\ placed_orders' = <<>>
    /\ first_answer' = "none"
    /\ UNCHANGED <<cfg_vars, sz_vars, sig_vars, val_vars, rec_vars, held_quantity,
                   account_id, self_todays_trades, all_signals, validations,
                   suitable_accounts, best_account, authentication, lib_vars>>

\* The end of the loop: the run returns True
Complete ==
    /\ run_pc = "signals"
    /\ signal_i > Len(all_signals)
    /\ run_pc' = "complete"
    /\ UNCHANGED <<cfg_vars, sz_vars, sig_vars, val_vars, rec_vars, ex_vars,
                   trading_accounts, all_signals, signal_i, validations,
                   suitable_accounts, best_account, refreshed, outcomes,
                   authentication, lib_vars>>

PipelineNext ==
    \/ Authenticate
    \/ CheckSafetyLimits
    \/ ProcessSignal
    \/ SessionCheck
    \/ Attempt
    \/ AfterExecution
    \/ Complete

SpecPipeline == PipelineInit /\ [][PipelineNext]_vars

\* the run over accounts where the whole-share fallback has a share to buy
SpecPipelineFallback == PipelineFallbackInit /\ [][PipelineNext]_vars

\* the run that starts near the limit of trade records
SpecPipelineLimit == PipelineLimitInit /\ [][PipelineNext]_vars


(***************************************************************************)
(* Properties of the position sizer (SpecSizer).                           *)
(***************************************************************************)
Sized == sz_pc = "sized"
\* cap = min(equity * max_position_pct, settled_funds), in 1/100 cent
Cap == max_position_value(account_value, settled_funds)
\* floor(cap / p)
CapShares == Cap \div (100 * signal_price)
WholeAvailable ==
    /\ CapShares >= 1
    /\ CapShares * signal_price >= MIN_POSITION_VALUE

\* C2: a FractionalDollars result, before and after the strategy multiplier,
\* has amount / price < 1.0, i.e. buys less than one share.
C2_FractionalBelowOneShare ==
    Sized =>
        /\ base_position.type = "dollars" => base_position.amount < signal_price
        /\ position_info.type = "dollars" => position_info.amount < signal_price

C2_Witness ==
    /\ Sized
    /\ position_info.type = "dollars"
    /\ position_info.factor > 100
    /\ position_info.amount > base_position.amount

\* C3 as stated: for every cap >= min_position_value, also below the
\* fractional-order minimum, a whole-share quantity that clears the minimum
\* makes the sizer return WholeShares, of floor(cap/p) shares when the
\* strategy factor is 1.
C3_WholeSharesForEveryCap ==
    (Sized /\ Cap >= MIN_POSITION_VALUE * 100 /\ WholeAvailable) =>
        /\ position_info.type = "shares"
        /\ position_info.factor = 100 => position_info.amount = CapShares

\* C3 amended: the same for caps at or above the fractional-order minimum,
\* the quantity being floor(cap/p), or one less when cap is an exact multiple
\* of p (at least 2p) and the float quotient falls short of it; for a cap
\* below the fractional-order minimum the result is None.
C3_WholeSharesAboveFractionalMin ==
    Sized =>
        /\ (Cap >= MIN_FRACTIONAL_ORDER * 100 /\ WholeAvailable) =>
              /\ position_info.type = "shares"
              /\ position_info.factor = 100 =>
                    \/ position_info.amount = CapShares
                    \/ /\ position_info.amount = CapShares - 1
                       /\ CapShares >= 2
                       /\ Cap % (100 * signal_price) = 0
        /\ Cap < MIN_FRACTIONAL_ORDER * 100 => position_info.type = "none"

C3_Witness ==
    /\ Sized
    /\ Cap >= MIN_FRACTIONAL_ORDER * 100
    /\ WholeAvailable
    /\ position_info.type = "shares"
    /\ position_info.factor = 100
    /\ position_info.amount = CapShares
    /\ CapShares >= 2

\* C4: no FractionalDollars result when floor(cap/p) >= 1 and that many
\* shares are worth at least min_position_value.
C4_NoFractionalWhenWholeAvailable ==
    (Sized /\ WholeAvailable) =>
        /\ base_position.type # "dollars"
        /\ position_info.type # "dollars"

C4_Witness ==
    /\ Sized
    /\ WholeAvailable
    /\ CapShares = 1
    /\ 9 * Cap >= MIN_FRACTIONAL_ORDER * 1000
    /\ position_info.type = "shares"


(***************************************************************************)
(* Properties of the order executor (SpecExec).                            *)
(***************************************************************************)
Done == ex_pc = "done"
ExecutorOrder ==
    order_for(symbol, signal_type, signal_price, position_info,
              current_positions, held_quantity, round_up, quotient_low)

\* C5: when every submission made for the signal failed with a retryable
\* error, the executor has made exactly 3 attempts, each with a submission,
\* waited between them (10 s, then 20 s) and returned False; for a
\* whole-share order that is exactly 3 calls of place_order.
C5_ThreeAttemptsOnRetryableErrors ==
    (Done /\ place_order_calls >= 1 /\ all_retryable) =>
        /\ ex_result = "False"
        /\ attempt = max_attempts
        /\ submitting_attempts = max_attempts
        /\ waited = base_delay + base_delay * 2
        /\ ExecutorOrder.mode = "whole_shares" => place_order_calls = max_attempts

C5_Witness ==
    /\ Done
    /\ all_retryable
    /\ ExecutorOrder.mode = "whole_shares"
    /\ place_order_calls = max_attempts
    /\ attempt = max_attempts
    /\ ex_result = "False"

C7_ExhaustedFractionalFallsBack ==
    exhausted.seen =>
        IF exhausted.whole_shares >= 1 THEN exhausted.fallback
        ELSE /\ Done
             /\ ex_result = "False"
             /\ attempt = exhausted.attempt
             /\ waited = exhausted.waited

\* C8: a whole-share fallback order has quantity floor(dollar_amount / price)
\* and is worth no more than the sized dollar amount.
C8_FallbackIsFloorOfDollarAmount ==
    fallback_order.submitted =>
        /\ fallback_order.quantity = position_info.amount \div signal_price
        /\ fallback_order.quantity * signal_price <= position_info.amount

\* C15: an order is submitted only after the session probe succeeded or the
\* login that follows a failed probe succeeded; a failed login ends the
\* execution as failed with no submission; after a successful login the
\* loop starts at attempt 1 and retryable failures use all max_attempts
\* submissions.
C15_SessionBeforeSubmission ==
    /\ (place_order_calls >= 1 \/ placed_orders # <<>>) =>
          \/ session.probe = "succeeded"
          \/ session.login = "succeeded"
    /\ (session.probe = "failed" /\ session.login = "failed") =>
          /\ Done
          /\ ex_result = "False"
          /\ place_order_calls = 0
          /\ placed_orders = <<>>
          /\ self_todays_trades = <<>>
    /\ (session.login = "succeeded" /\ ex_pc = "loop" /\ waited = 0) =>
          /\ attempt = 1
          /\ submitting_attempts = 0
    /\ (session.login = "succeeded" /\ Done /\ place_order_calls >= 1
         /\ all_retryable) =>
          /\ attempt = max_attempts
          /\ submitting_attempts = max_attempts

\* Three submitting attempts after a failed probe and a successful login
C15_Witness ==
    /\ Done
    /\ session.probe = "failed"
    /\ session.login = "succeeded"
    /\ submitting_attempts = max_attempts
    /\ Len(placed_orders) >= max_attempts

\* C16: every execution ends, with True (SUCCESS) or False (FAILED), and
\* never goes beyond attempt max_attempts nor beyond max_attempts submitting
\* attempts, whatever the broker returns or raises (SpecExecLive).
C16_TerminatesWithinThreeAttempts ==
    /\ <>(Done /\ ex_result \in {"True", "False"})
    /\ [](attempt <= max_attempts /\ submitting_attempts <= max_attempts)
    /\ [](Done => ex_result \in {"True", "False"})
    /\ [][Done => UNCHANGED vars]_vars

\* An execution that succeeds at its last attempt
C16_Witness ==
    /\ Done
    /\ attempt = max_attempts
    /\ submitting_attempts = max_attempts
    /\ ex_result = "True"

\* C17: for a BUY sized as WholeShares(q), after a successful session probe
\* and a first submission answered with one of the success shapes, the
\* execution is over at its first attempt with exactly one order placed, of
\* quantity q, the result True and exactly one trade record, of quantity q.
C17_WholeShareBuyFillsOnce ==
    (/\ signal_type = "BUY"
     /\ position_info.type = "shares"
     /\ session.probe = "succeeded"
     /\ first_answer = "success shape") =>
        /\ Done
        /\ attempt = 1
        /\ ex_result = "True"
        /\ place_order_calls = 1
        /\ \E id \in ParsedOrderIds :
              placed_orders = <<PlacedOrder(account_id, symbol, "BUY",
                                   position_info.amount * 100000, TRUE, id)>>
        /\ \E id \in RecordOrderIds :
              self_todays_trades = <<TradeRecord(account_id, symbol, "BUY",
                                        position_info.amount * 100000, id)>>

\* A BUY of two whole shares or more answered with {'data': {'orderId': ...}}
C17_Witness ==
    /\ Done
    /\ signal_type = "BUY"
    /\ position_info.type = "shares"
    /\ position_info.amount >= 2
    /\ session.probe = "succeeded"
    /\ first_answer = "success shape"
    /\ Len(self_todays_trades) = 1
    /\ self_todays_trades[1].quantity = position_info.amount * 100000

(***************************************************************************)
(* Properties of the response parser (SpecParse).                          *)
(***************************************************************************)
ParsedResponse == prs_pc = "parsed"

\* the order ids of the success shapes a response has
ShapeOrderIds(reply) ==
    (IF reply.orderId = "present" THEN {"top-level orderId"} ELSE {})
    \cup (IF reply.data = "orderId" THEN {"data orderId"} ELSE {})

GenericMessages ==
    {"No order result received", "Order failed",
     "Unexpected order result format"}

\* C18: parsing reports success exactly when the response has one of the
\* three success shapes, with that shape's order id; every other response is
\* a failure that carries the response's msg field or a generic message.
C18_SuccessExactlyOnSuccessShapes ==
    ParsedResponse =>
        /\ ~parse_result.raised
        /\ parse_result.success <=> SuccessShape(response)
        /\ parse_result.success =>
              parse_result.order_id \in ShapeOrderIds(response)
        /\ ~parse_result.success =>
              parse_result.error_message
                 \in GenericMessages
                     \cup (IF response.msg = "absent" THEN {} ELSE {response.msg})

(***************************************************************************)
(* Properties of the day-trade reconciler (SpecReconciler).                *)
(***************************************************************************)
\* C9: of two successive fetches less than 5 minutes apart the second
\* returns what the first returned and makes no broker call, whatever the
\* first returned, the empty list included.
C9_RefetchWithinTTLIsCached ==
    (prev_fetch.made /\ last_fetch.at - prev_fetch.at < cache_duration_minutes) =>
        /\ last_fetch.result = prev_fetch.result
        /\ ~last_fetch.called_api

(***************************************************************************)
(* Properties of the validators (SpecValidate).                            *)
(***************************************************************************)
Validated == v_pc = "validated"
HeldSell == signal_type = "SELL" /\ symbol \in current_positions.symbols
BoughtToday == Trade(symbol, "BUY") \in recent_trades

DayTradeDenial ==
    {Deny("DAY TRADING BLOCKED"), Deny("ENHANCED DAY TRADING PROTECTION")}

\* C1: validating a SELL of a symbol the account holds, when today's trades
\* contain a BUY of that symbol, returns a denial for day trading if day
\* trading is disabled, and no denial for day trading if it is enabled.
C1_HeldSellAfterBuyDenied ==
    (Validated /\ HeldSell /\ BoughtToday) =>
        IF ALLOW_DAY_TRADING THEN v_result \notin DayTradeDenial
        ELSE v_result \in DayTradeDenial

\* The rules of should_execute_signal, each on its own
ShortSellViolated ==
    signal_type = "SELL" /\ symbol \notin current_positions.symbols
    /\ ~ALLOW_SHORT_SELLING
DayTradeViolated ==
    /\ ~ALLOW_DAY_TRADING
    /\ \/ signal_type = "SELL" /\ Trade(symbol, "BUY") \in recent_trades
       \/ signal_type = "BUY" /\ Trade(symbol, "SELL") \in recent_trades
StructureViolated ==
    \/ signal_type \notin {"BUY", "SELL"}
    \/ signal_metadata.requires_shorting
    \/ signal_metadata.is_day_trade /\ ~ALLOW_DAY_TRADING
ConfidenceViolated == confidence < MIN_SIGNAL_CONFIDENCE
BuyAndHoldViolated == signal_type = "SELL" /\ symbol \in BUY_AND_HOLD_POSITIONS
MinPositionViolated ==
    signal_type = "BUY"
    /\ account_value * MAX_POSITION_VALUE_PERCENT < MIN_POSITION_VALUE * 100
MinFractionalViolated ==
    signal_type = "BUY"
    /\ account_value * MAX_POSITION_VALUE_PERCENT < MIN_FRACTIONAL_ORDER * 100
MaxPositionsViolated ==
    signal_type = "BUY"
    /\ Cardinality(current_positions.symbols) + current_positions.others
          >= MAX_POSITIONS_TOTAL

FirstViolation ==
    IF ShortSellViolated THEN Deny("SHORT SELLING BLOCKED")
    ELSE IF DayTradeViolated THEN Deny("DAY TRADING BLOCKED")
    ELSE IF StructureViolated THEN Deny("RULE VIOLATION")
    ELSE IF ConfidenceViolated THEN Deny("Confidence below minimum")
    ELSE IF BuyAndHoldViolated THEN Deny("marked as buy-and-hold")
    ELSE IF MinPositionViolated THEN Deny("Max position below minimum")
    ELSE IF MinFractionalViolated THEN Deny("Position below fractional minimum")
    ELSE IF MaxPositionsViolated THEN Deny("At maximum positions")
    ELSE Allow("Signal meets all criteria")

\* C10: should_execute_signal returns the denial of the earliest violated
\* rule in the order short-sell, day-trade, structural validity, confidence,
\* buy-and-hold, position/fund ceilings, for every signal.
C10_FirstViolationReported ==
    (Validated /\ ~day_trade_protection) => v_result = FirstViolation

(***************************************************************************)
(* The place of the broker-reconciled day trade check (SpecValidate).      *)
(***************************************************************************)
\* the signal would complete a same-day round trip according to the trades
\* in the list
RoundTrip(trades) ==
    \E i \in 1..Len(trades) :
        /\ trades[i].symbol = symbol
        /\ \/ signal_type = "SELL" /\ trades[i].action = "BUY"
           \/ signal_type = "BUY" /\ trades[i].action = "SELL"

\* the checks of should_execute_signal that stand before the confidence
\* check find nothing (the enhanced validator hands it no trade log)
ReachesConfidence ==
    ~ShortSellViolated /\ ~StructureViolated /\ signal_metadata # NoneMetadata

Executing == run_pc = "executing"

\* The pass of the loop that validates the signal at signal_i for every account
ValidatesSell ==
    /\ run_pc = "signals"
    /\ signal_i <= Len(all_signals)
    /\ all_signals[signal_i].signal_type = "SELL"

Denied(validation) == ~validation.raised /\ ~validation.ok

\* With short selling disabled, every account whose holdings lack the symbol
\* of a SELL gets a denial from the validation that ran for it
DeniesShortSales ==
    (ValidatesSell /\ ~ALLOW_SHORT_SELLING) =>
        \A k \in 1..Len(validations') :
            (/\ ~Holds(trading_accounts[k].positions, all_signals[signal_i].symbol)
             /\ validations'[k] # NotRun)
            => Denied(validations'[k])

\* Every SELL order the executor placed is for a symbol that the snapshot of
\* the account it runs on holds
SellsOnlyHoldings ==
    \A i \in 1..Len(placed_orders) :
        placed_orders[i].action = "SELL" =>
            /\ Holds(current_positions, placed_orders[i].symbol)
            /\ Executing =>
                  /\ placed_orders[i].account_id
                        = trading_accounts[best_account].account_id
                  /\ Holds(trading_accounts[best_account].positions,
                           placed_orders[i].symbol)

\* C12: with short selling disabled, validation denies every SELL whose
\* symbol is not among the account's holdings, and no SELL order is ever
\* submitted on an account whose snapshot holds no position in the symbol.
C12_NoShortSale == [][DeniesShortSales]_vars /\ []SellsOnlyHoldings

\* A SELL that one account was denied for lack of a position, placed as an
\* order on the other account
C12_Witness ==
    /\ Executing
    /\ ~ALLOW_SHORT_SELLING
    /\ signal_type = "SELL"
    /\ \E k \in 1..Len(validations) :
          /\ ~Holds(trading_accounts[k].positions, symbol)
          /\ validations[k] = Deny("SHORT SELLING BLOCKED")
    /\ \E i \in 1..Len(placed_orders) : placed_orders[i].action = "SELL"

\* C13: a SELL of a symbol on the buy-and-hold list is always denied by
\* validation, whatever its confidence, its metadata and the account state
\* (SpecValidate).
C13_BuyAndHoldSellDenied ==
    (/\ Validated
     /\ signal_type = "SELL"
     /\ symbol \in BUY_AND_HOLD_POSITIONS)
    => Denied(v_result)

\* The other half of C13, which holds of the run: no SELL order is placed for
\* a symbol on the buy-and-hold list (SpecPipeline).
BuyAndHoldNeverSold ==
    \A i \in 1..Len(placed_orders) :
        placed_orders[i].action = "SELL" =>
            placed_orders[i].symbol \notin BUY_AND_HOLD_POSITIONS

Funds_of(k) == trading_accounts[k].settled_funds

Eligible == {suitable_accounts[j] : j \in 1..Len(suitable_accounts)}

\* C14: the account the executor runs on is one of the accounts that passed
\* validation and sizing, none of them has greater settled funds, and none
\* with the same settled funds comes before it in account order.
C14_GreatestSettledFundsFirstOnTie ==
    Executing =>
        /\ best_account \in Eligible
        /\ account_id = trading_accounts[best_account].account_id
        /\ \A k \in Eligible : Funds_of(k) <= Funds_of(best_account)
        /\ \A k \in Eligible :
              Funds_of(k) = Funds_of(best_account) => best_account <= k

\* Two eligible accounts with the same settled funds, the first selected
C14_Witness ==
    /\ Executing
    /\ Len(suitable_accounts) = 2
    /\ Funds_of(suitable_accounts[1]) = Funds_of(suitable_accounts[2])
    /\ best_account = suitable_accounts[1]
    /\ placed_orders # <<>>

\* the passes of the loop that ended with an executed trade
ExecutedSignals == {i \in 1..Len(outcomes) : outcomes[i] = "executed"}

\* the signal of the n-th executed trade
ExecutedSignal(n) ==
    all_signals[CHOOSE i \in ExecutedSignals :
                    Cardinality({j \in ExecutedSignals : j <= i}) = n]

BetweenSignals == run_pc \in {"signals", "complete", "error"}

\* C19: when the loop is about to take the next signal, every executed trade
\* has its record in today's trades and its account among the refreshed
\* ones, in the order of the executions, and a failed execution has left
\* neither; during an execution the refreshes are those of the earlier
\* trades and the records those of the earlier trades and of this one if it
\* succeeded.
C19_RecordAndRefreshAfterSuccessOnly ==
    /\ Len(refreshed) = Cardinality(ExecutedSignals)
    /\ BetweenSignals =>
          /\ Len(self_todays_trades) = Cardinality(ExecutedSignals)
          /\ \A n \in 1..Len(self_todays_trades) :
                /\ refreshed[n] = self_todays_trades[n].account_id
                /\ self_todays_trades[n].symbol = ExecutedSignal(n).symbol
                /\ self_todays_trades[n].action = ExecutedSignal(n).signal_type
    /\ Executing =>
          Len(self_todays_trades) =
             Cardinality(ExecutedSignals)
             + (IF ex_pc = "done" /\ ex_result = "True" THEN 1 ELSE 0)

\* An executed trade followed by a failed execution
C19_Witness ==
    /\ BetweenSignals
    /\ outcomes = <<"executed", "failed">>
    /\ Len(self_todays_trades) = 1
    /\ refreshed = <<self_todays_trades[1].account_id>>

FailedExecutionContinues ==
    (Executing /\ ex_pc = "done" /\ ex_result # "True") =>
        /\ ex_result = "False"
        /\ run_pc' = "signals"
        /\ signal_i' = signal_i + 1
        /\ outcomes' = Append(outcomes, "failed")
        /\ UNCHANGED <<trading_accounts, refreshed, self_todays_trades>>

FailedExecutionsContinue == [][FailedExecutionContinues]_vars

\* C21: validation never raises: for every signal, the one without metadata
\* included, its result is an allow or a deny with a reason (SpecValidate).
C21_ValidationNeverRaises ==
    Validated =>
        /\ ~v_result.raised
        /\ v_result.reason \notin {"AttributeError", "not run"}

\* The other half of C21 in the run: no pass of the loop ends the run in its
\* error handler (SpecPipeline).
RunNeverInErrorHandler == run_pc # "error"

(***************************************************************************)
(* Properties of the account refresh (SpecRefresh).                        *)
(***************************************************************************)
RefreshDone == rf_pc = "refreshed"

\* the equity the payload gives: the top-level one, else the member's
PayloadNet(data) ==
    IF data.netLiquidation # Absent THEN data.netLiquidation ELSE data.member_net

\* C22: after a refresh that returns True the equity, the funds and the
\* positions of the snapshot are the payload's, none is the previous
\* snapshot's for want of a value in the payload; after a refresh that
\* returns False the snapshot is the previous one.
C22_RefreshAllOrNothing ==
    RefreshDone =>
        /\ load_result = "True" =>
              /\ PayloadNet(account_data) # Absent
              /\ account_snapshot.net_liquidation = PayloadNet(account_data)
              /\ account_snapshot.settled_funds
                    = (IF account_data.member_funds = Absent THEN 0
                       ELSE account_data.member_funds)
              /\ account_snapshot.positions = account_data.positions
        /\ load_result = "False" => account_snapshot = previous_snapshot

(***************************************************************************)
(* Properties of the trade log file (SpecTradeLog).                        *)
(***************************************************************************)
Written == lg_pc = "logged" /\ log_outcome = "written"

\* dated, and not more than RetentionDays days before today
WithinRetention(t) ==
    /\ t.date # NoDate
    /\ Ordinal(log_day) - Ordinal(t.date) <= RetentionDays

\* dated more than RetentionDays days before today
Outdated(t) ==
    /\ t.date # NoDate
    /\ Ordinal(log_day) - Ordinal(t.date) > RetentionDays

PreviouslyStored ==
    IF previous_log_file.state = "list" THEN previous_log_file.trades ELSE <<>>

\* C23: after a successful write the file ends with the new record, the
\* records before it that are dated within the last RetentionDays days are
\* those of the file as it was, unchanged and in their order, and no record
\* of the file is dated more than RetentionDays days ago.
C23_StoreKeepsThirtyDays ==
    Written =>
        /\ trade_log_file.state = "list"
        /\ Len(trade_log_file.trades) >= 1
        /\ trade_log_file.trades[Len(trade_log_file.trades)] = Stored(0, log_day)
        /\ SelectSeq(SubSeq(trade_log_file.trades, 1,
                            Len(trade_log_file.trades) - 1), WithinRetention)
              = SelectSeq(PreviouslyStored, WithinRetention)
        /\ \A i \in 1..Len(trade_log_file.trades) :
              /\ ~Outdated(trade_log_file.trades[i])
              /\ \/ i = Len(trade_log_file.trades)
                 \/ \E j \in 1..Len(PreviouslyStored) :
                       PreviouslyStored[j] = trade_log_file.trades[i]

\* A write that kept a record of the cutoff day and dropped an older one
C23_Witness ==
    /\ Written
    /\ Len(PreviouslyStored) = 2
    /\ Ordinal(log_day) - Ordinal(PreviouslyStored[1].date) = RetentionDays + 1
    /\ Ordinal(log_day) - Ordinal(PreviouslyStored[2].date) = RetentionDays
    /\ trade_log_file.trades = <<PreviouslyStored[2], Stored(0, log_day)>>

\* C24: with settled_funds below MIN_FRACTIONAL_ORDER the sizer returns the
\* 'none' result for every price and account value, from get_position_size
\* and from get_position_size_with_strategy_adjustments alike.
C24_NoneBelowFractionalMinimum ==
    (Sized /\ settled_funds < MIN_FRACTIONAL_ORDER) =>
        /\ base_position.type = "none"
        /\ base_position.amount = 0
        /\ position_info = base_position

\* Funds below the minimum that would buy whole shares worth
\* MIN_POSITION_VALUE, the percentage cap being no lower, under a strategy
\* with a multiplier
C24_Witness ==
    /\ Sized
    /\ settled_funds < MIN_FRACTIONAL_ORDER
    /\ settled_funds >= MIN_POSITION_VALUE
    /\ Cap = settled_funds * 100
    /\ signal_price <= settled_funds
    /\ adjustment_factor(strategy_name, signal_metadata) > 100
    /\ position_info.type = "none"

\* quantity * price for whole shares, the amount for dollars, in 1/100 cent
OrderValue(position) ==
    IF position.type = "shares" THEN position.amount * signal_price * 100
    ELSE position.amount * 100

\* C28: every sizing result other than 'none' has, after the strategy
\* multiplier, an order value of at most
\* min(account_value * MAX_POSITION_VALUE_PERCENT, settled_funds).
C28_SizedOrderWithinCap ==
    (Sized /\ position_info.type # "none") => OrderValue(position_info) <= Cap

\* the same of the result of get_position_size, before any multiplier
BaseOrderWithinCap ==
    (Sized /\ base_position.type # "none") => OrderValue(base_position) <= Cap

\* the adjusted result exceeds the cap only as whole shares under a
\* multiplier above 1
OverCapOnlyByBonus ==
    (Sized /\ position_info.type # "none" /\ OrderValue(position_info) > Cap) =>
        /\ position_info.type = "shares"
        /\ adjustment_factor(strategy_name, signal_metadata) > 100

(***************************************************************************)
(* A BUY of a symbol bought today (SpecValidate).                          *)
(***************************************************************************)
\* the actions of today's trades of the signal's symbol: the local trade log
\* for the config validator, the broker's reports for the enhanced one
TodaysActions ==
    IF day_trade_protection
    THEN {broker_trades[i].action :
            i \in {j \in 1..Len(broker_trades) : broker_trades[j].symbol = symbol}}
    ELSE {t.action : t \in {u \in recent_trades : u.symbol = symbol}}

BuyAfterBuy == signal_type = "BUY" /\ "BUY" \in TodaysActions

NoOtherViolation ==
    /\ ~ShortSellViolated /\ ~StructureViolated /\ ~ConfidenceViolated
    /\ ~BuyAndHoldViolated /\ ~MinPositionViolated /\ ~MinFractionalViolated
    /\ ~MaxPositionsViolated
    /\ signal_metadata # NoneMetadata

Opposite(a, b) == (a = "BUY" /\ b = "SELL") \/ (a = "SELL" /\ b = "BUY")

\* an order submitted for the signal in execution is the opposite of a trade
\* of the same symbol that the run logged before
OwnRoundTrip(same_account) ==
    \E i \in 1..Len(placed_orders), j \in 1..Len(self_todays_trades) :
        /\ placed_orders[i].symbol = self_todays_trades[j].symbol
        /\ Opposite(placed_orders[i].action, self_todays_trades[j].action)
        /\ same_account =>
              placed_orders[i].account_id = self_todays_trades[j].account_id

\* C26: with day trading disabled, no order the run submits completes a
\* same-day round trip with a trade the run executed before on the same
\* symbol, the reconciler's cache being filled before that trade or not.
C26_NoOwnRoundTrip == ~ALLOW_DAY_TRADING => ~OwnRoundTrip(FALSE)

\* without the reconciler the validator reads the account's own trades of
\* the run, and no round trip is submitted on one account
NoOwnRoundTripOnLocalLog ==
    (~ALLOW_DAY_TRADING /\ ~day_trade_protection) => ~OwnRoundTrip(TRUE)

\* a round trip submitted on the answer of a cache that was filled before
\* the run's earlier trade and is still valid
CachedListRoundTrip ==
    /\ ~ALLOW_DAY_TRADING /\ day_trade_protection /\ OwnRoundTrip(TRUE)
    /\ _is_cache_valid(todays_trades_cache, cache_timestamp, now)
    /\ \A i \in 1..Len(todays_trades_cache.trades) :
          todays_trades_cache.trades[i].symbol # symbol

(***************************************************************************)
(* The annotations of the signal in execution (SpecPipeline).              *)
(***************************************************************************)
ExecutingBuy == run_pc = "executing" /\ ex_pc # "done" /\ signal_type = "BUY"

\* C27: the position_info and target_account that a signal in execution
\* carries are those computed for the selected account from its equity and
\* settled funds, whichever of the eligible accounts was evaluated last.
C27_AnnotationsOfSelectedAccount ==
    ExecutingBuy =>
        /\ position_info =
              get_position_size_with_strategy_adjustments(signal_price,
                  trading_accounts[best_account].net_liquidation,
                  trading_accounts[best_account].settled_funds,
                  all_signals[signal_i].strategy, signal_metadata,
                  round_up, quotient_low)
        /\ target_account(suitable_accounts, trading_accounts)
              = trading_accounts[best_account].account_id

\* the annotations are those of the last suitable account
AnnotationsOfLastSuitable ==
    ExecutingBuy =>
        LET last == suitable_accounts[Len(suitable_accounts)]
        IN  /\ position_info =
                  get_position_size_with_strategy_adjustments(signal_price,
                      trading_accounts[last].net_liquidation,
                      trading_accounts[last].settled_funds,
                      all_signals[signal_i].strategy, signal_metadata,
                      round_up, quotient_low)
            /\ target_account(suitable_accounts, trading_accounts)
                  = trading_accounts[last].account_id

(***************************************************************************)
(* The reconciler's check in authenticated runs (SpecPipeline).            *)
(***************************************************************************)
Authenticated == authentication \in {"saved session", "fresh login"}

\* the validation that let the signal in execution pass for the selected
\* account was the reconciler's
CheckedByReconciler ==
    /\ day_trade_protection
    /\ validations[best_account] = Allow("Enhanced checks passed")

\* C29: in a run that authenticated, by a saved session or by a fresh login,
\* a signal in execution was checked against the broker-reported trades by
\* the day-trade reconciler when it was validated for its account.
C29_ReconcilerChecksEverySignal ==
    (Authenticated /\ run_pc = "executing") => CheckedByReconciler

\* the same of the runs that logged in afresh
ReconcilerChecksAfterFreshLogin ==
    (authentication = "fresh login" /\ run_pc = "executing")
        => CheckedByReconciler

\* a run on a saved session never has the reconciler
NoReconcilerOnSavedSession ==
    authentication = "saved session" => ~day_trade_protection

(***************************************************************************)
(* The account of the trades a fetch returns (SpecAccounts).               *)
(***************************************************************************)
\* C30: the trades that a fetch for an account returns were fetched while
\* the broker client was on that account; in particular a list answered
\* from the cache was not fetched on another account.
C30_FetchAnswersForItsAccount ==
    (account_fetch.made /\ account_fetch.result # <<>>) =>
        account_fetch.fetched_under = account_fetch.account_id

\* a fetch for one account answered from a cache filled on the other
C30_CachedListOfOtherAccount ==
    /\ account_fetch.made /\ account_fetch.from_cache
    /\ account_fetch.fetched_under # account_fetch.account_id

(***************************************************************************)
(* The verdict of the reconciled day trade check (SpecValidate).           *)
(***************************************************************************)
\* the check ran on the list that the fetch returned
CheckedOnFetch ==
    /\ Validated /\ day_trade_protection /\ ~ALLOW_DAY_TRADING
    /\ dt_check.ran /\ last_fetch.made

\* the actions of the trades of the signal's symbol in the list
FetchedActions ==
    {last_fetch.result[i].action :
        i \in {j \in 1..Len(last_fetch.result) :
                  last_fetch.result[j].symbol = symbol}}

\* C31: with day trading disabled the reconciled check denies exactly a SELL
\* of a symbol with a BUY among today's trades and a BUY of a symbol with a
\* SELL among them, held or not; a BUY after buys only, a SELL after sells
\* only and any action on a symbol without trades today pass the check.
C31_DeniesExactlyOppositeAction ==
    CheckedOnFetch =>
        (~dt_check.ok <=>
            \/ signal_type = "SELL" /\ "BUY" \in FetchedActions
            \/ signal_type = "BUY" /\ "SELL" \in FetchedActions)

\* A BUY of a symbol sold today and not held is denied by the check
C31_Witness ==
    /\ CheckedOnFetch
    /\ signal_type = "BUY"
    /\ FetchedActions = {"SELL"}
    /\ symbol \notin current_positions.symbols
    /\ ~dt_check.ok
    /\ v_result = Deny("ENHANCED DAY TRADING PROTECTION")

(***************************************************************************)
(* The check when the broker cannot be read (SpecValidate).                *)
(***************************************************************************)
\* the check ran on a fetch whose two broker calls both raised
BrokerUnreadable == CheckedOnFetch /\ last_fetch.both_failed

\* C32: with day trading disabled, a check whose fetch could read neither
\* the order history nor the account activity does not allow the signal.
C32_UnreadableBrokerNotAllowed == BrokerUnreadable => ~dt_check.ok

\* what the check answers then
UnreadableBrokerAllowed ==
    BrokerUnreadable =>
        dt_check = Check(TRUE, "No trades found for this symbol today")

(***************************************************************************)
(* The pauses of the executor (SpecExec).                                  *)
(***************************************************************************)
\* base_delay * (1 + ... + n)
DelaysUpTo(n) == (base_delay * n * (n + 1)) \div 2

\* C33: the executor has waited base_delay * n between each failed attempt
\* n and attempt n + 1 and at no other time: when attempt k runs or has
\* ended the execution, the time waited is base_delay * (1 + ... + (k - 1)),
\* so nothing is waited after the final attempt, a success or a
\* non-retryable failure.
C33_LinearBackoffBetweenAttempts ==
    (ex_pc \in {"loop", "done"} /\ attempt >= 1) =>
        /\ attempt <= max_attempts
        /\ waited = DelaysUpTo(attempt - 1)

\* Three failed attempts: 10 s and 20 s waited, and nothing after the third
C33_Witness ==
    /\ ex_pc = "done" /\ ex_result = "False"
    /\ attempt = max_attempts
    /\ submitting_attempts = max_attempts
    /\ waited = base_delay + base_delay * 2

(***************************************************************************)
(* Deduplication in the merge of the broker lists (SpecMerge).             *)
(***************************************************************************)
Merged == mg_pc = "fetched"

\* same symbol and action, quantity less than 0.001 and price less than 0.01
\* apart
Near(a, b) ==
    /\ a.symbol = b.symbol
    /\ a.action = b.action
    /\ a.quantity - b.quantity \in -9..9
    /\ a.price - b.price \in -9..9

HoldsNear(trades, a) == \E i \in 1..Len(trades) : Near(trades[i], a)
HoldsPair(trades, a) ==
    \E i \in 1..Len(trades) :
        trades[i].symbol = a.symbol /\ trades[i].action = a.action

\* today's filled orders of the order history, standardised, in its order
FilledOrders ==
    IF history_orders.raised THEN <<>>
    ELSE LET filled == SelectSeq(history_orders.data, FilledToday)
         IN  [i \in 1..Len(filled) |-> _standardize_webull_order(filled[i])]

\* the list the merge has built when the first k activities are through
MergedAfter(k) ==
    reported_trades(history_orders,
                    Reply(SubSeq(account_activities.data, 1, k)))

Factor == adjustment_factor(strategy_name, signal_metadata)
\* round(base amount * factor, 2) of a fractional base, in cents
AdjustedDollars == RoundDiv(base_position.amount * Factor, 100, round_up)
\* int(base amount * factor) of a whole-share base
AdjustedShares == (base_position.amount * Factor) \div 100

\* C35: a strategy-adjusted size is none, or whole shares with an integer
\* amount of at least 1, or dollars with an amount of at least
\* MIN_FRACTIONAL_ORDER; a fractional base whose adjusted amount is below
\* the minimum gives none, and a whole-share base whose adjusted count is
\* below 1 gives 1 share.
C35_AdjustedSizeWellFormed ==
    Sized =>
        /\ position_info.type \in {"none", "shares", "dollars"}
        /\ position_info.type = "shares" =>
              position_info.amount \in Nat /\ position_info.amount >= 1
        /\ position_info.type = "dollars" =>
              position_info.amount >= MIN_FRACTIONAL_ORDER
        /\ (base_position.type = "dollars" /\ AdjustedDollars < MIN_FRACTIONAL_ORDER) =>
              position_info.type = "none"
        /\ (base_position.type = "shares" /\ AdjustedShares < 1) =>
              position_info.type = "shares" /\ position_info.amount = 1

\* a fractional base at or above the minimum that a reducing strategy turns
\* into none
C35_Witness ==
    /\ Sized
    /\ base_position.type = "dollars"
    /\ base_position.amount >= MIN_FRACTIONAL_ORDER
    /\ Factor < 100
    /\ AdjustedDollars < MIN_FRACTIONAL_ORDER
    /\ position_info.type = "none"

\* a base of one whole share that a reducing strategy leaves at one share
ClampedToOneShare ==
    /\ Sized
    /\ base_position.type = "shares"
    /\ Factor < 100
    /\ AdjustedShares < 1
    /\ position_info.type = "shares"
    /\ position_info.amount = 1

(***************************************************************************)
(* One order and one trade record for a signal (SpecPipelineFallback).     *)
(***************************************************************************)
\* the submissions for the signal in hand whose answer was parsed as a
\* success
ReportedSuccessful ==
    {i \in 1..Len(placed_orders) : placed_orders[i].reported}
\* the signals gone through whose execution returned True
NumExecuted ==
    Cardinality({i \in 1..Len(outcomes) : outcomes[i] = "executed"})
\* the executor has returned True for the signal in hand
ReturnedTrue == run_pc = "executing" /\ ex_pc = "done" /\ ex_result = "True"

\* C36: of the orders submitted for a signal at most one is reported
\* successful, and it is the last one submitted, ending the execution; every
\* order for the signal goes to the one selected account; and the trade
\* records number no more than the signals whose execution returned True,
\* one record each.
C36_OneOrderOneRecordPerSignal ==
    /\ Cardinality(ReportedSuccessful) <= 1
    /\ ReportedSuccessful # {} =>
          /\ ReportedSuccessful = {Len(placed_orders)}
          /\ ReturnedTrue
    /\ \A i \in 1..Len(placed_orders) :
          /\ run_pc = "executing"
          /\ placed_orders[i].account_id =
                trading_accounts[best_account].account_id
    /\ Len(self_todays_trades) = NumExecuted + (IF ReturnedTrue THEN 1 ELSE 0)
    /\ Len(refreshed) = NumExecuted
    /\ NumExecuted <= Len(outcomes)
    /\ Len(outcomes) <= Len(all_signals)

\* both signals executed, the second by the whole-share fallback of its
\* third attempt: two records, several orders submitted, the last one
\* reported successful
C36_Witness ==
    /\ ReturnedTrue
    /\ signal_i = 2
    /\ outcomes = <<"executed">>
    /\ attempt = max_attempts
    /\ fallback_order.submitted
    /\ Len(placed_orders) >= 4
    /\ ReportedSuccessful = {Len(placed_orders)}
    /\ Len(self_todays_trades) = 2

\* two signals executed, one on each account
ExecutedOnBothAccounts ==
    /\ ReturnedTrue
    /\ outcomes = <<"executed">>
    /\ self_todays_trades[1].account_id # self_todays_trades[2].account_id

(***************************************************************************)
(* The order id of a trade record (SpecExec).                              *)
(***************************************************************************)
\* the executor has returned True: its last submission was parsed as a
\* success and its trade record is the last of todays_trades
Executed == ex_pc = "done" /\ ex_result = "True"
LastOrder == placed_orders[Len(placed_orders)]
LastRecord == self_todays_trades[Len(self_todays_trades)]

\* C37: the order_id of the trade record of an executed order is the order
\* id that the parse of the broker's answer gave.
C37_RecordHoldsParsedOrderId ==
    Executed => LastRecord.order_id = LastOrder.order_id

\* an order answered with {'data': {'orderId': ...}}: the parse gives the id
\* under 'data', the record holds 'N/A'
DataOrderIdLoggedAsNA ==
    /\ Executed
    /\ LastOrder.order_id = "data orderId"
    /\ LastRecord.order_id = "N/A"

\* the id at the top level of the answer is the one id the record can hold
RecordHoldsTopLevelOrderId ==
    Executed =>
        IF LastOrder.order_id = "top-level orderId"
        THEN LastRecord.order_id = "top-level orderId"
        ELSE LastRecord.order_id = "N/A"

(***************************************************************************)
(* The per-account limit of trade records (SpecPipelineLimit).             *)
(***************************************************************************)
RecordsOf(id) == NumAccountTrades(self_todays_trades, id)
\* the records the executing account had when its execution began
RecordsBeforeExecution ==
    RecordsOf(account_id) - (IF ReturnedTrue THEN 1 ELSE 0)

\* C38: in a run that starts with no account above MAX_POSITIONS_TOTAL trade
\* records of today, no account ever has more than MAX_POSITIONS_TOTAL, and
\* every order goes to an account that had fewer than MAX_POSITIONS_TOTAL
\* records when its execution began.
C38_AccountRecordsWithinLimit ==
    /\ \A id \in AccountIds : RecordsOf(id) <= MAX_POSITIONS_TOTAL
    /\ (run_pc = "executing" /\ placed_orders # <<>>) =>
          RecordsBeforeExecution < MAX_POSITIONS_TOTAL

\* the first signal was executed on an account one short of the limit, which
\* the filter then leaves out for the second signal, executed on the other
C38_Witness ==
    /\ ReturnedTrue
    /\ signal_i = 2
    /\ outcomes = <<"executed">>
    /\ Len(trading_accounts) = 2
    /\ RecordsOf(refreshed[1]) = MAX_POSITIONS_TOTAL
    /\ account_id # refreshed[1]
    /\ RecordsOf(account_id) = MAX_POSITIONS_TOTAL
    /\ Len(validations) = 2
    /\ \E k \in 1..2 : validations[k] = NotRun

\* an account at the limit when the run starts is not traded with
AtLimitAccountLeftOut ==
    /\ run_pc = "complete"
    /\ Len(trading_accounts) = 1
    /\ \E id \in AccountIds :
          /\ id # trading_accounts[1].account_id
          /\ RecordsOf(id) = MAX_POSITIONS_TOTAL
    /\ RecordsOf(trading_accounts[1].account_id) = MAX_POSITIONS_TOTAL

\* and the run does not trade when every account is at the limit
AllAccountsAtLimit ==
    /\ run_pc = "limits not met"
    /\ \A id \in AccountIds : RecordsOf(id) = MAX_POSITIONS_TOTAL

(***************************************************************************)
(* The quantity of a SELL order (SpecExec).                                *)
(***************************************************************************)
\* C39: every SELL order submitted is for a symbol held in the account's
\* snapshot and for the whole quantity of that position; a SELL of a symbol
\* the snapshot does not hold ends as failed with no order submitted.
C39_SellsWholePosition ==
    /\ \A i \in 1..Len(placed_orders) :
          placed_orders[i].action = "SELL" =>
             /\ Holds(current_positions, placed_orders[i].symbol)
             /\ placed_orders[i].quantity = held_quantity
    /\ (signal_type = "SELL" /\ ~Holds(current_positions, symbol)) =>
          /\ placed_orders = <<>>
          /\ place_order_calls = 0
          /\ ex_pc = "done" => ex_result = "False" /\ waited = 0

\* a position of 1.5 shares sold: every attempt submits 1.5 shares
C39_Witness ==
    /\ Done
    /\ signal_type = "SELL"
    /\ held_quantity % 100000 # 0
    /\ Len(placed_orders) = max_attempts
    /\ \A i \in 1..Len(placed_orders) :
          placed_orders[i].quantity = held_quantity

\* a SELL without a position: the first attempt returns False, nothing is
\* submitted
SellWithoutPositionFails ==
    /\ Done
    /\ signal_type = "SELL"
    /\ ~Holds(current_positions, symbol)
    /\ attempt = 1
    /\ ex_result = "False"
    /\ placed_orders = <<>>

Init == SizerInit
Next == SizerNext
Spec == Init /\ [][Next]_vars

====
